---- MODULE Spec2Model ----
(***************************************************************************)
(* A model of jax/interpreters/partial_eval.py: partial values, the        *)
(* JaxprTrace operations that record tracers, the extraction of a Jaxpr    *)
(* from a tracer graph, and the partial-evaluation split of a Jaxpr.       *)
(*                                                                         *)
(* Tracers live in a heap (a sequence); a tracer's identity id(t) is its   *)
(* index in the heap.  Every Python object is a record with a tag field k, *)
(* so that values of different Python types can be compared.              *)
(***************************************************************************)
EXTENDS Integers, Sequences, FiniteSets, TLC

(***************************************************************************)
(* Bounds of the model.                                                    *)
(***************************************************************************)
MaxTracers == 8
MaxSteps == 3
MaxCallSteps == 4
MaxDepth == 3

(***************************************************************************)
(* Abstract values, jax values and partial values.                         *)
(***************************************************************************)
ShapedArray(shape, dtype) == [k |-> "arr", shape |-> shape, dtype |-> dtype]

\* A ConcreteArray is the abstract value of one constant: it holds the
\* constant, and two of them are equal only for equal constants (join_pvals,
\* lines 327-331: "equal constants" / "different constants").
ConcreteArray(shape, dtype, val) ==
  [k |-> "conc", shape |-> shape, dtype |-> dtype, val |-> val]

AbstractTuple(elts) == [k |-> "atup", elts |-> elts]

abstract_unit == AbstractTuple(<<>>)

IsAbstractValue(pv) == pv.k \in {"arr", "conc", "atup", "unshaped"}

\* the fully-known descriptor (Python None)
None == [k |-> "none"]

JaxprTracerTuple(elts) == [k |-> "jtt", elts |-> elts]

\* a concrete array
Array(shape, v) == [k |-> "c", shape |-> shape, dtype |-> "f32", v |-> v]

JaxTuple(elts) == [k |-> "tup", elts |-> elts]

unit == JaxTuple(<<>>)

\* a tracer of the heap, used as a value
TracerRef(id) == [k |-> "tr", id |-> id]

\* a tracer of some other interpreter, of the given trace level
ForeignTracer(level) == [k |-> "ftr", level |-> level]

IsTracer(v) == v.k \in {"tr", "ftr"}

PartialVal(pv, const) == [pv |-> pv, const |-> const]

\* recipes
LambdaBinding == [k |-> "lambda"]
FreeVar(val) == [k |-> "freevar", val |-> val]
ConstVar(val) == [k |-> "constvar", val |-> val]
UnitRecipe == [k |-> "unit"]
EqnRecipe(eqn) == [k |-> "eqn", eqn |-> eqn]
Destructuring(i, eqn, key) == [k |-> "destr", i |-> i, eqn |-> eqn, key |-> key]

\* Variables: Var(count, suffix); the distinguished unit variable; and the
\* None that stands for an output not yet named.
Var(count, suffix) == [count |-> count, suffix |-> suffix]
unitvar == Var(0, "*")
NoneVar == Var(0, "None")

JaxprEqn(invars, outvars, primitive, bound_subjaxprs, restructure, destructure, params) ==
  [invars |-> invars, outvars |-> outvars, primitive |-> primitive,
   bound_subjaxprs |-> bound_subjaxprs, restructure |-> restructure,
   destructure |-> destructure, params |-> params]

Jaxpr(constvars, freevars, invars, outvar, eqns) ==
  [constvars |-> constvars, freevars |-> freevars, invars |-> invars,
   outvar |-> outvar, eqns |-> eqns]

Trace(level, sublevel) == [level |-> level, sublevel |-> sublevel]

\* the result of an operation on the heap: the new heap and what it returns
R(h, r) == [h |-> h, r |-> r]

Range(s) == {s[i] : i \in DOMAIN s}

RECURSIVE SeqMax(_)
SeqMax(s) == IF s = <<>> THEN -1
             ELSE LET m == SeqMax(Tail(s)) IN IF Head(s) > m THEN Head(s) ELSE m

(***************************************************************************)
(* Lookups that follow tracers into the heap.                              *)
(***************************************************************************)
level_of(h, v) == IF v.k = "tr" THEN h[v.id].trace.level ELSE v.level

RECURSIVE get_aval(_, _)
RECURSIVE partial_val_aval(_, _, _)
\* core.get_aval: a tracer's aval, the ConcreteArray of a constant, the
\* AbstractTuple of a tuple's components.
get_aval(h, val) ==
  CASE val.k = "c" -> ConcreteArray(val.shape, val.dtype, val.v)
    [] val.k = "tup" -> AbstractTuple([i \in DOMAIN val.elts |-> get_aval(h, val.elts[i])])
    [] val.k = "tr" -> partial_val_aval(h, h[val.id].pval.pv, h[val.id].pval.const)
    [] val.k = "ftr" -> ShapedArray(<<>>, "f32")

partial_val_aval(h, pv, const) ==
  CASE IsAbstractValue(pv) -> pv
    [] pv.k = "jtt" ->
         AbstractTuple([i \in DOMAIN pv.elts |->
                          partial_val_aval(h, pv.elts[i], const.elts[i])])
    [] pv.k = "none" -> get_aval(h, const)

aval(h, id) == partial_val_aval(h, h[id].pval.pv, h[id].pval.const)

ispure(h, id) == h[id].pval.pv = None

RECURSIVE full_lower(_, _)
\* core.full_lower / JaxprTracer.full_lower: a fully-known tracer lowers to
\* its constant.
full_lower(h, val) ==
  IF val.k = "tr" /\ ispure(h, val.id) THEN full_lower(h, h[val.id].pval.const)
  ELSE val

\* x bound to a value in F: LET with the value computed in one place
With(x, F(_)) == F(x)

(***************************************************************************)
(* Tracers and the operations of a JaxprTrace.                             *)
(***************************************************************************)
JaxprTracer(trace, pval, recipe) == [trace |-> trace, pval |-> pval, recipe |-> recipe]

\* JaxprTracer.__init__ without its assertion
init_asserts_mut(h, trace, pval) == TRUE

\* the assertion of JaxprTracer.__init__ on a constant that is a Tracer
init_asserts(h, trace, pval) ==
  IsTracer(pval.const) => level_of(h, pval.const) < trace.level

Alloc(h, t) == R(Append(h, t), Len(h) + 1)

\* new_const raises on a tracer of its own level
new_const_raises(h, trace, val) ==
  IsTracer(val) /\ level_of(h, val) = trace.level

new_const(h, trace, val) ==
  Alloc(h, JaxprTracer(trace, PartialVal(None, val), UnitRecipe))

\* the constant kept as the value beside its abstract value
new_instantiated_const_mut(h, trace, val) ==
  Alloc(h, JaxprTracer(trace, PartialVal(get_aval(h, val), val), ConstVar(val)))

new_instantiated_const(h, trace, val) ==
  Alloc(h, JaxprTracer(trace, PartialVal(get_aval(h, val), unit), ConstVar(val)))

new_arg(h, trace, pval) == Alloc(h, JaxprTracer(trace, pval, LambdaBinding))

sublift(h, trace, val) ==
  Alloc(h, JaxprTracer(trace, h[val.id].pval, FreeVar(val)))

\* Trace.full_raise: a value that is no tracer is wrapped by pure, a tracer
\* of this trace is returned as it is, a tracer of a lower sublevel of the
\* same master is sublifted, a tracer of a lower level is lifted.
full_raise(h, trace, val) ==
  IF ~IsTracer(val) THEN new_const(h, trace, val)
  ELSE IF val.k = "tr" /\ h[val.id].trace.level = trace.level
       THEN IF h[val.id].trace.sublevel = trace.sublevel
            THEN R(h, val.id)
            ELSE sublift(h, trace, val)
       ELSE new_const(h, trace, val)

RECURSIVE full_raise_all(_, _, _, _)
full_raise_all(h, trace, vals, acc) ==
  IF vals = <<>> THEN R(h, acc)
  ELSE With(full_raise(h, trace, Head(vals)),
            LAMBDA fr : full_raise_all(fr.h, trace, Tail(vals), Append(acc, fr.r)))

\* core.find_top_trace: the level of the highest tracer among the arguments
\* (-1: none is a tracer)
top_level(h, vals) ==
  SeqMax([i \in DOMAIN vals |->
            IF IsTracer(vals[i]) THEN level_of(h, vals[i]) ELSE -1])

top_is_foreign(h, vals) ==
  \E i \in DOMAIN vals : vals[i].k = "ftr" /\ vals[i].level = top_level(h, vals)

RECURSIVE core_pack(_, _, _)
RECURSIVE pack_pvals(_, _, _)
RECURSIVE trace_pack(_, _, _)

pack_pv_out(pvs) ==
  IF \A i \in DOMAIN pvs : pvs[i] = None THEN None
  ELSE IF \A i \in DOMAIN pvs : IsAbstractValue(pvs[i])
       THEN AbstractTuple(pvs)
       ELSE JaxprTracerTuple(pvs)

\* pack_pvals; the heap is threaded through because pack(consts) may bind
\* pack in a lower trace
pack_pvals(h, sub, pvals) ==
  With(core_pack(h, sub, [i \in DOMAIN pvals |-> pvals[i].const]),
       LAMBDA pc : R(pc.h, PartialVal(pack_pv_out([i \in DOMAIN pvals |-> pvals[i].pv]),
                                      pc.r)))

\* JaxprTrace.pack
trace_pack(h, trace, ids) ==
  With(pack_pvals(h, trace.sublevel, [i \in DOMAIN ids |-> h[ids[i]].pval]),
       LAMBDA pp : Alloc(pp.h, JaxprTracer(trace, pp.r,
                     EqnRecipe(JaxprEqn(ids, <<>>, "pack", <<>>, FALSE, FALSE, {})))))

\* core.pack: a JaxTuple of values, or pack bound in the top trace of the
\* arguments and the result lowered
core_pack(h, sub, vals) ==
  IF top_level(h, vals) = -1 THEN R(h, JaxTuple(vals))
  ELSE IF top_is_foreign(h, vals) THEN R(h, ForeignTracer(top_level(h, vals)))
  ELSE With(full_raise_all(h, Trace(top_level(h, vals), sub), vals, <<>>),
         LAMBDA fr : With(trace_pack(fr.h, Trace(top_level(h, vals), sub), fr.r),
           LAMBDA tp : R(tp.h, full_lower(tp.h, TracerRef(tp.r)))))

RECURSIVE unpack_children(_, _, _, _, _, _, _, _)
unpack_children(h, trace, pvs, consts, eqn, key, i, acc) ==
  IF i > Len(pvs) THEN R(h, acc)
  ELSE IF pvs[i] = None
       THEN unpack_children(h, trace, pvs, consts, eqn, key, i + 1,
                            Append(acc, full_lower(h, consts[i])))
       ELSE unpack_children(
              Append(h, JaxprTracer(trace, PartialVal(pvs[i], consts[i]),
                                    Destructuring(i, eqn, key))),
              trace, pvs, consts, eqn, key, i + 1,
              Append(acc, TracerRef(Len(h) + 1)))

\* JaxprTracer.unpack on a tracer whose descriptor is an AbstractTuple or a
\* JaxprTracerTuple (a fully-known tracer returns its constant).  key, the
\* fresh object(), is the heap index of the first child; a Destructuring's
\* index i counts from 1.
can_unpack(h, id) == h[id].pval.pv.k \in {"atup", "jtt"}

unpack_const(h, id) ==
  IF IsAbstractValue(h[id].pval.pv)
  THEN [i \in 1..Len(h[id].pval.pv.elts) |-> unit]
  ELSE h[id].pval.const.elts

unpack_eqn(h, id) ==
  JaxprEqn(<<id>>, [i \in 1..Len(h[id].pval.pv.elts) |-> NoneVar], "identity",
           <<>>, FALSE, TRUE, {})

unpack(h, id) ==
  unpack_children(h, h[id].trace, h[id].pval.pv.elts, unpack_const(h, id),
                  unpack_eqn(h, id), Len(h) + 1, 1, <<>>)

RECURSIVE instantiate_const(_, _, _)
RECURSIVE instantiate_children(_, _, _, _)
instantiate_children(h, trace, vals, acc) ==
  IF vals = <<>> THEN R(h, acc)
  ELSE With(full_raise(h, trace, Head(vals)),
         LAMBDA fr : With(instantiate_const(fr.h, trace, fr.r),
           LAMBDA ic : instantiate_children(ic.h, trace, Tail(vals),
                                            Append(acc, TracerRef(ic.r)))))

\* instantiate_const that makes a new constant tracer of an unknown tracer too
instantiate_const_mut(h, trace, id) ==
  IF h[id].pval.pv.k = "jtt"
  THEN With(unpack(h, id),
         LAMBDA u : With(instantiate_children(u.h, trace, u.r, <<>>),
           LAMBDA cs : With(core_pack(cs.h, trace.sublevel, cs.r),
             LAMBDA p : R(p.h, p.r.id))))
  ELSE new_instantiated_const(h, trace,
         IF h[id].pval.pv = None THEN h[id].pval.const ELSE TracerRef(id))

instantiate_const(h, trace, id) ==
  IF IsAbstractValue(h[id].pval.pv) THEN R(h, id)
  ELSE IF h[id].pval.pv.k = "jtt"
       THEN With(unpack(h, id),
              LAMBDA u : With(instantiate_children(u.h, trace, u.r, <<>>),
                LAMBDA cs : With(core_pack(cs.h, trace.sublevel, cs.r),
                  LAMBDA p : R(p.h, p.r.id))))
       ELSE new_instantiated_const(h, trace, h[id].pval.const)

RECURSIVE instantiate_all(_, _, _, _)
instantiate_all(h, trace, ids, acc) ==
  IF ids = <<>> THEN R(h, acc)
  ELSE With(instantiate_const(h, trace, Head(ids)),
            LAMBDA ic : instantiate_all(ic.h, trace, Tail(ids), Append(acc, ic.r)))

\* the primitive catalog: abstract_eval raises its arguments to ShapedArray
Arity(prim) == IF prim = "add" THEN 2 ELSE 1

abstract_eval(prim, avals) == ShapedArray(avals[1].shape, avals[1].dtype)

\* process_primitive recording its inputs as they come, not instantiated
process_primitive_mut(h, trace, primitive, ids, params) ==
  Alloc(h,
        JaxprTracer(trace,
          PartialVal(abstract_eval(primitive, [i \in DOMAIN ids |-> aval(h, ids[i])]),
                     unit),
          EqnRecipe(JaxprEqn(ids, <<>>, primitive, <<>>, FALSE, FALSE, params))))

\* JaxprTrace.process_primitive for a primitive without a custom rule
\* (custom_partial_eval_rules is empty)
process_primitive(h, trace, primitive, ids, params) ==
  With(instantiate_all(h, trace, ids, <<>>),
    LAMBDA ts :
      Alloc(ts.h,
            JaxprTracer(trace,
              PartialVal(abstract_eval(primitive,
                           [i \in DOMAIN ts.r |-> aval(ts.h, ts.r[i])]), unit),
              EqnRecipe(JaxprEqn(ts.r, <<>>, primitive, <<>>, FALSE, FALSE, params)))))

(***************************************************************************)
(* Extraction of a Jaxpr from a tracer graph.                              *)
(***************************************************************************)
RECURSIVE Concat(_)
Concat(ss) == IF ss = <<>> THEN <<>> ELSE Head(ss) \o Concat(Tail(ss))

\* restructure is False in every equation the traces record
eqn_parents(eqn) ==
  eqn.invars \o Concat([i \in DOMAIN eqn.bound_subjaxprs |->
                          eqn.bound_subjaxprs[i].c \o eqn.bound_subjaxprs[i].f])

parents(h, id) ==
  IF h[id].recipe.k \in {"eqn", "destr"} THEN eqn_parents(h[id].recipe.eqn)
  ELSE <<>>

\* util.toposort: count how often each reachable node is a parent, then
\* emit a node once all the nodes it is a parent of are emitted, and
\* reverse, so that parents come first.
RECURSIVE child_counts(_, _, _)
child_counts(h, stack, counts) ==
  IF stack = <<>> THEN counts
  ELSE IF counts[stack[Len(stack)]] > 0
       THEN child_counts(h, SubSeq(stack, 1, Len(stack) - 1),
                         [counts EXCEPT ![stack[Len(stack)]] = @ + 1])
       ELSE child_counts(h, SubSeq(stack, 1, Len(stack) - 1)
                              \o parents(h, stack[Len(stack)]),
                         [counts EXCEPT ![stack[Len(stack)]] = 1])

RECURSIVE visit_parents(_, _, _)
visit_parents(ps, childless, counts) ==
  IF ps = <<>> THEN [childless |-> childless, counts |-> counts]
  ELSE IF counts[Head(ps)] = 1
       THEN visit_parents(Tail(ps), Append(childless, Head(ps)), counts)
       ELSE visit_parents(Tail(ps), childless, [counts EXCEPT ![Head(ps)] = @ - 1])

RECURSIVE sort_nodes(_, _, _, _)
sort_nodes(h, childless, counts, sorted) ==
  IF childless = <<>> THEN sorted
  ELSE With(visit_parents(parents(h, childless[Len(childless)]),
                          SubSeq(childless, 1, Len(childless) - 1), counts),
            LAMBDA v : sort_nodes(h, v.childless, v.counts,
                                  <<childless[Len(childless)]>> \o sorted))

toposort(h, end_node) ==
  With(child_counts(h, <<end_node>>, [i \in 1..Len(h) |-> 0]),
       LAMBDA c0 : sort_nodes(h, <<end_node>>, [c0 EXCEPT ![end_node] = @ - 1], <<>>))

\* The state of one extraction: the counter of gensym(''), t_to_var (NoneVar:
\* no entry yet), the equations, env and consts in insertion order, and
\* destructuring_vars.  An operation returns the state and its value v.
ExtractInit(h) ==
  [cnt |-> 0, t2v |-> [i \in 1..Len(h) |-> NoneVar], eqns |-> <<>>,
   env |-> <<>>, consts |-> <<>>, dvars |-> <<>>, err |-> FALSE]

SV(S, v) == [S |-> S, v |-> v]

\* gensym('')'s newvar
newvar(S) == SV([S EXCEPT !.cnt = @ + 1], Var(S.cnt, ""))

\* var = lambda t: t_to_var[id(t)], a defaultdict that names a tracer on its
\* first lookup
var(S, t) ==
  IF S.t2v[t] # NoneVar THEN SV(S, S.t2v[t])
  ELSE SV([S EXCEPT !.cnt = @ + 1, !.t2v[t] = Var(S.cnt, "")], Var(S.cnt, ""))

RECURSIVE map_var(_, _, _)
map_var(S, ts, acc) ==
  IF ts = <<>> THEN SV(S, acc)
  ELSE With(var(S, Head(ts)),
            LAMBDA x : map_var(x.S, Tail(ts), Append(acc, x.v)))

RECURSIVE map_newvar(_, _, _)
map_newvar(S, n, acc) ==
  IF n = 0 THEN SV(S, acc)
  ELSE With(newvar(S), LAMBDA x : map_newvar(x.S, n - 1, Append(acc, x.v)))

RECURSIVE subjaxprs_to_var(_, _, _)
subjaxprs_to_var(S, subs, acc) ==
  IF subs = <<>> THEN SV(S, acc)
  ELSE With(map_var(S, Head(subs).c, <<>>),
         LAMBDA c : With(map_var(c.S, Head(subs).f, <<>>),
           LAMBDA f : subjaxprs_to_var(f.S, Tail(subs),
                        Append(acc, [jaxpr |-> Head(subs).jaxpr, c |-> c.v, f |-> f.v]))))

eqn_tracer_to_var(S, outvars, eqn) ==
  With(map_var(S, eqn.invars, <<>>),
    LAMBDA iv : With(subjaxprs_to_var(iv.S, eqn.bound_subjaxprs, <<>>),
      LAMBDA sj : SV(sj.S, JaxprEqn(iv.v, outvars, eqn.primitive, sj.v,
                                    eqn.restructure, eqn.destructure, eqn.params))))

\* a lookup that never finds the key of an unpack call
HasKey_mut(dvars, key) == FALSE

HasKey(dvars, key) == \E i \in DOMAIN dvars : dvars[i].key = key
Lookup(dvars, key) == dvars[CHOOSE i \in DOMAIN dvars : dvars[i].key = key].outvars

\* one iteration of the loop of tracers_to_jaxpr over sorted_tracers, by the
\* kind of the tracer's recipe
step_eqn(S, t, recipe) ==
  With(var(S, t),
    LAMBDA o : With(eqn_tracer_to_var(o.S, <<o.v>>, recipe.eqn),
      LAMBDA e : [e.S EXCEPT !.eqns = Append(@, e.v)]))

step_freevar(S, t, recipe) ==
  With(var(S, t),
    LAMBDA o : [o.S EXCEPT !.env = Append(@, [var |-> o.v, val |-> recipe.val])])

step_constvar(S, t, recipe) ==
  With(var(S, t),
    LAMBDA o : [o.S EXCEPT !.consts = Append(@, [var |-> o.v, val |-> recipe.val])])

step_destructuring(S, t, recipe) ==
  IF ~HasKey(S.dvars, recipe.key)
  THEN With(map_newvar(S, Len(recipe.eqn.outvars), <<>>),
         LAMBDA ov : With(eqn_tracer_to_var(ov.S, ov.v, recipe.eqn),
           LAMBDA e : [e.S EXCEPT !.eqns = Append(@, e.v),
                          !.dvars = Append(@, [key |-> recipe.key, outvars |-> ov.v]),
                          !.t2v[t] = ov.v[recipe.i]]))
  ELSE [S EXCEPT !.t2v[t] = Lookup(S.dvars, recipe.key)[recipe.i]]

extract_step(h, in_tracers, S, t) ==
  CASE h[t].recipe.k = "eqn" -> step_eqn(S, t, h[t].recipe)
    [] h[t].recipe.k = "lambda" ->
         IF in_tracers = <<>> THEN [S EXCEPT !.err = TRUE] ELSE S
    [] h[t].recipe.k = "freevar" -> step_freevar(S, t, h[t].recipe)
    [] h[t].recipe.k = "constvar" -> step_constvar(S, t, h[t].recipe)
    [] h[t].recipe.k = "destr" -> step_destructuring(S, t, h[t].recipe)
    [] h[t].recipe.k = "unit" -> [S EXCEPT !.t2v[t] = unitvar]

RECURSIVE extract_loop(_, _, _, _)
extract_loop(h, in_tracers, S, sorted) ==
  IF sorted = <<>> \/ S.err THEN S
  ELSE extract_loop(h, in_tracers, extract_step(h, in_tracers, S, Head(sorted)),
                    Tail(sorted))

\* the end of tracers_to_jaxpr (468-472): the state S after the loop, invars
\* the variables of in_tracers, o the variable of out_tracer
extract_result(S, invars, o, sorted_tracers, in_tracers, out_tracer) ==
  [jaxpr |-> Jaxpr([i \in DOMAIN S.consts |-> S.consts[i].var],
                   [i \in DOMAIN S.env |-> S.env[i].var],
                   invars, o.v, S.eqns),
   consts |-> [i \in DOMAIN S.consts |-> S.consts[i].val],
   env |-> [i \in DOMAIN S.env |-> S.env[i].val],
   err |-> S.err, t_to_var |-> o.S.t2v, sorted |-> sorted_tracers,
   in_tracers |-> in_tracers, out_tracer |-> out_tracer]

\* The orders in which a dict of n entries may be iterated.  env and consts
\* are keyed by Var objects (441-442, 453-455), which define neither __eq__
\* nor __hash__ (479-492) and so hash by identity: the iteration order of
\* the dict is not fixed by the order of insertion.
ItemOrders(n) == {p \in [1..n -> 1..n] : \A i, j \in 1..n : i # j => p[i] # p[j]}

\* unzip2(d.items()) (468-469) on a dict iterated in the order p
items(d, p) == [i \in DOMAIN d |-> d[p[i]]]

\* the constvars iterated in another order than their values
iterated_mut(e, pc, pe) ==
  [e EXCEPT !.jaxpr.constvars = items(@, pc), !.jaxpr.freevars = items(@, pe),
            !.env = items(@, pe)]

\* e, the outcome on dicts iterated in insertion order, with consts iterated
\* in the order pc and env in the order pe
iterated(e, pc, pe) ==
  [e EXCEPT !.jaxpr.constvars = items(@, pc), !.consts = items(@, pc),
            !.jaxpr.freevars = items(@, pe), !.env = items(@, pe)]

\* the outcomes of one extraction
extractions(e) ==
  {iterated(e, pc, pe) : pc \in ItemOrders(Len(e.consts)), pe \in ItemOrders(Len(e.env))}

\* the extraction that names only the input tracers the output depends on
tracers_to_jaxpr_mut(h, in_tracers, out_tracer) ==
  With(toposort(h, out_tracer),
    LAMBDA sorted_tracers :
      With(map_var(ExtractInit(h),
                   SelectSeq(in_tracers, LAMBDA t : t \in Range(sorted_tracers)), <<>>),
        LAMBDA iv : With(extract_loop(h, in_tracers, iv.S, sorted_tracers),
          LAMBDA S : extract_result(S, iv.v, var(S, out_tracer), sorted_tracers,
                                    in_tracers, out_tracer))))

\* tracers_to_jaxpr(in_tracers, out_tracer): the Jaxpr, the constants and
\* the environment values (err: the assertion on a LambdaBinding failed)
tracers_to_jaxpr(h, in_tracers, out_tracer) ==
  With(toposort(h, out_tracer),
    LAMBDA sorted_tracers : With(map_var(ExtractInit(h), in_tracers, <<>>),
      LAMBDA iv : With(extract_loop(h, in_tracers, iv.S, sorted_tracers),
        LAMBDA S : extract_result(S, iv.v, var(S, out_tracer), sorted_tracers,
                                  in_tracers, out_tracer))))

(***************************************************************************)
(* process_call and process_map.  The callee runs between the two halves:  *)
(* the call begins with the code up to the point where the callee's body   *)
(* starts (process_call 88-89, trace_to_subjaxpr 402-405) and ends with    *)
(* the code from the callee's return (trace_to_subjaxpr 406-414,           *)
(* partial_eval_wrapper 224-227, process_call 90-97).                      *)
(***************************************************************************)
RECURSIVE remove_axis_from_aval(_)
remove_axis_from_aval(a) ==
  IF a.k = "atup"
  THEN AbstractTuple([i \in DOMAIN a.elts |-> remove_axis_from_aval(a.elts[i])])
  ELSE ShapedArray(IF a.shape = <<>> THEN <<>> ELSE Tail(a.shape), a.dtype)

RECURSIVE remove_axis_from_pv(_)
remove_axis_from_pv(pv) ==
  IF pv = None THEN pv
  ELSE IF IsAbstractValue(pv) THEN remove_axis_from_aval(pv)
  ELSE JaxprTracerTuple([i \in DOMAIN pv.elts |-> remove_axis_from_pv(pv.elts[i])])

RECURSIVE add_axis_to_aval(_, _)
add_axis_to_aval(size, a) ==
  IF a.k = "atup"
  THEN AbstractTuple([i \in DOMAIN a.elts |-> add_axis_to_aval(size, a.elts[i])])
  ELSE ShapedArray(<<size>> \o a.shape, a.dtype)

RECURSIVE add_axis_to_pv(_, _)
add_axis_to_pv(size, pv) ==
  IF pv = None THEN pv
  ELSE IF IsAbstractValue(pv) THEN add_axis_to_aval(size, pv)
  ELSE JaxprTracerTuple([i \in DOMAIN pv.elts |-> add_axis_to_pv(size, pv.elts[i])])

Param(params, name) == (CHOOSE kv \in params : kv[1] = name)[2]

RECURSIVE new_args(_, _, _, _)
new_args(h, trace, pvals, acc) ==
  IF pvals = <<>> THEN R(h, acc)
  ELSE new_args(Append(h, JaxprTracer(trace, Head(pvals), LambdaBinding)), trace,
                Tail(pvals), Append(acc, Len(h) + 1))

RECURSIVE new_instantiated_consts(_, _, _, _)
new_instantiated_consts(h, trace, vals, acc) ==
  IF vals = <<>> THEN R(h, acc)
  ELSE With(new_instantiated_const(h, trace, Head(vals)),
            LAMBDA a : new_instantiated_consts(a.h, trace, Tail(vals), Append(acc, a.r)))

\* the partial values the callee is traced on
call_pvals(h, tracers_, is_map) ==
  [i \in DOMAIN tracers_ |->
     PartialVal(IF is_map THEN remove_axis_from_pv(h[tracers_[i]].pval.pv)
                ELSE h[tracers_[i]].pval.pv,
                h[tracers_[i]].pval.const)]

\* process_call attaching the callee's environment as it is, not raised
process_call_mut(h, trace, call_primitive, tracers_, params, sub, out_pval) ==
  With(new_instantiated_consts(h, trace, sub.consts, <<>>),
    LAMBDA const_tracers :
      Alloc(const_tracers.h,
        JaxprTracer(trace, PartialVal(out_pval.pv, out_pval.const),
          EqnRecipe(JaxprEqn(tracers_, <<>>, call_primitive,
            <<[jaxpr |-> sub.jaxpr, c |-> const_tracers.r,
               f |-> [i \in DOMAIN sub.env |-> sub.env[i].id]]>>,
            FALSE, FALSE, params)))))

\* process_call, from the callee's return: sub is the extraction of the
\* callee's trace, out_pval the partial value of its output tracer
process_call(h, trace, call_primitive, tracers_, params, sub, out_pval) ==
  With(new_instantiated_consts(h, trace, sub.consts, <<>>),
    LAMBDA const_tracers : With(full_raise_all(const_tracers.h, trace, sub.env, <<>>),
      LAMBDA env_tracers :
        Alloc(env_tracers.h,
          JaxprTracer(trace, PartialVal(out_pval.pv, out_pval.const),
            EqnRecipe(JaxprEqn(tracers_, <<>>, call_primitive,
              <<[jaxpr |-> sub.jaxpr, c |-> const_tracers.r, f |-> env_tracers.r]>>,
              FALSE, FALSE, params))))))

\* the conversion with the constvars put after the invars
jaxpr_converted_mut(jaxpr) ==
  [jaxpr EXCEPT !.constvars = <<>>, !.invars = jaxpr.invars \o jaxpr.constvars]

\* Jaxpr objects.  A store is the sequence of the Jaxpr objects made so far;
\* an object is named by its position, and an assignment to an attribute of
\* an object changes the store at that position.
\* core.Jaxpr.copy: a new object with the attributes of the object a
copy(st, a) == [st |-> Append(st, st[a]), r |-> Len(st) + 1]

\* the conversion written into the Jaxpr it is given
jaxpr_converted_obj_mut(st, a) ==
  With([st EXCEPT ![a].constvars = <<>>],
    LAMBDA s1 : [st |-> [s1 EXCEPT ![a].invars = st[a].constvars \o st[a].invars],
                 r |-> a])

\* process_map 108-110 on the object a of the store st: the new store and
\* the object jaxpr_converted
jaxpr_converted_obj(st, a) ==
  With(copy(st, a),
    LAMBDA c : With([c.st EXCEPT ![c.r].constvars = <<>>],
      LAMBDA s1 : [st |-> [s1 EXCEPT ![c.r].invars = s1[a].constvars \o s1[a].invars],
                   r |-> c.r]))

\* jaxpr_converted of process_map
jaxpr_converted(jaxpr) ==
  With(jaxpr_converted_obj(<<jaxpr>>, 1), LAMBDA c : c.st[c.r])

\* process_map, from the callee's return
process_map(h, trace, call_primitive, tracers_, params, sub, out_pval) ==
  With(new_instantiated_consts(h, trace, sub.consts, <<>>),
    LAMBDA const_tracers : With(full_raise_all(const_tracers.h, trace, sub.env, <<>>),
      LAMBDA env_tracers :
        Alloc(env_tracers.h,
          JaxprTracer(trace,
            PartialVal(add_axis_to_pv(Param(params, "axis_size"), out_pval.pv),
                       out_pval.const),
            EqnRecipe(JaxprEqn(const_tracers.r \o tracers_, <<>>, call_primitive,
              <<[jaxpr |-> jaxpr_converted(sub.jaxpr), c |-> <<>>,
                 f |-> [i \in DOMAIN sub.env |-> sub.env[i].id]]>>,
              FALSE, FALSE, params))))))

(***************************************************************************)
(* The tracing machine: one master trace (level 1) runs a function that    *)
(* applies primitives, packs, unpacks, wraps constants and calls functions *)
(* through call and map primitives; at its return the Jaxpr is extracted.  *)
(***************************************************************************)
VARIABLES tracers, frames, status, steps, last, ext, pe, jn, hcb, cc

vars == <<tracers, frames, status, steps, last, ext, pe, jn, hcb, cc>>

Prims == {"neg", "add"}

\* what a traced function can be called on
ArgPvals == {PartialVal(ShapedArray(<<2>>, "f32"), unit),
             PartialVal(None, Array(<<>>, 1)),
             PartialVal(AbstractTuple(<<ShapedArray(<<2>>, "f32"),
                                        ShapedArray(<<2>>, "f32")>>), unit)}

NoExt == [err |-> FALSE, sorted |-> <<>>]

SeqsOf(S, n) == UNION {[1..m -> S] : m \in 1..n}

cur_sublevel == Len(frames) - 1

cur_trace == Trace(1, cur_sublevel)

\* the tracers of the frames that are running which the traced function can
\* hold: arguments, outputs of primitives and components of tuples (the
\* tracers made for constants and free variables stay inside the trace)
LiveIds ==
  {i \in 1..Len(tracers) :
     /\ tracers[i].trace.sublevel <= cur_sublevel
     /\ i > frames[tracers[i].trace.sublevel + 1].base
     /\ tracers[i].recipe.k \in {"lambda", "eqn", "destr"}}

\* what the running function can hold: live tracers and two literals
Vals == {TracerRef(i) : i \in LiveIds} \cup {Array(<<>>, 1), Array(<<>>, 2)}

Frame(kind, base, in_tracers, args, params) ==
  [kind |-> kind, base |-> base, in_tracers |-> in_tracers, args |-> args,
   params |-> params]

\* a step's outcome: the heap, and what the other variables become
start(pvals, budget) ==
  /\ \E a \in {new_args(<<>>, Trace(1, 0), pvals, <<>>)} :
       /\ tracers = a.h
       /\ frames = <<Frame("top", 0, a.r, <<>>, {})>>
  /\ status = "run"
  /\ steps = budget
  /\ last = [op |-> "init"]
  /\ ext = NoExt
  /\ pe = [pc |-> "off"]
  /\ jn = [op |-> "off"]
  /\ hcb = [pc |-> "off"]
  /\ cc = [pc |-> "off"]

Init == \E pvals \in SeqsOf(ArgPvals, 2) : start(pvals, MaxSteps)

InitCall == start(<<PartialVal(ShapedArray(<<2>>, "f32"), unit)>>, MaxCallSteps)

bind(h, trace, prim, args) ==
  With(full_raise_all(h, trace, args, <<>>),
    LAMBDA fr : With(process_primitive(fr.h, trace, prim, fr.r, {}),
      LAMBDA pp : [h |-> pp.h,
                   last |-> [op |-> "process_primitive", primitive |-> prim,
                             tracers |-> fr.r, h |-> fr.h, out |-> pp.r]]))

\* Primitive.bind on arrays of which one is a tracer of the master: the
\* arguments are raised to the current trace, which processes the primitive
Bind ==
  /\ status = "run"
  /\ steps > 0
  /\ steps' = steps - 1
  /\ \E prim \in Prims : \E args \in [1..Arity(prim) -> Vals] :
       /\ \E i \in DOMAIN args : IsTracer(args[i])
       /\ \A i \in DOMAIN args : get_aval(tracers, args[i]).k # "atup"
       /\ \E r \in {bind(tracers, cur_trace, prim, args)} :
             /\ Len(r.h) <= MaxTracers
             /\ tracers' = r.h
             /\ last' = r.last
  /\ UNCHANGED <<frames, status, ext, pe, jn, hcb, cc>>

\* core.pack on two values
Pack ==
  /\ status = "run"
  /\ steps > 0
  /\ steps' = steps - 1
  /\ \E args \in [1..2 -> Vals] :
       /\ \E i \in DOMAIN args : IsTracer(args[i])
       /\ \E p \in {core_pack(tracers, cur_sublevel, args)} :
             /\ Len(p.h) <= MaxTracers
             /\ tracers' = p.h
             /\ last' = [op |-> "pack", out |-> p.r]
  /\ UNCHANGED <<frames, status, ext, pe, jn, hcb, cc>>

\* iterating over a tracer of a tuple: tracer.unpack()
Unpack ==
  /\ status = "run"
  /\ steps > 0
  /\ steps' = steps - 1
  /\ \E id \in LiveIds :
       /\ can_unpack(tracers, id)
       /\ \E u \in {unpack(tracers, id)} :
             /\ Len(u.h) <= MaxTracers
             /\ tracers' = u.h
             /\ last' = [op |-> "unpack", tracer |-> id, key |-> Len(tracers) + 1,
                         out |-> u.r]
  /\ UNCHANGED <<frames, status, ext, pe, jn, hcb, cc>>

\* trace.pure(val) / trace.lift(val) / trace.new_const(val) on the current
\* trace: an Exception for a tracer of the same level, an AssertionError of
\* JaxprTracer.__init__ for one of a higher level
NewConst ==
  /\ status = "run"
  /\ steps > 0
  /\ steps' = steps - 1
  /\ \E val \in Vals \cup {ForeignTracer(0), ForeignTracer(2)} :
       \E ok \in {/\ ~new_const_raises(tracers, cur_trace, val)
                  /\ init_asserts(tracers, cur_trace, PartialVal(None, val))} :
          /\ ok => Len(tracers) < MaxTracers
          /\ tracers' = IF ok THEN new_const(tracers, cur_trace, val).h ELSE tracers
          /\ status' = IF ok THEN "run" ELSE "error"
          /\ last' = [op |-> "new_const", val |-> val, trace |-> cur_trace,
                      n |-> Len(tracers)]
  /\ UNCHANGED <<frames, ext, pe, jn, hcb, cc>>

call_begin(h, trace, kind, args) ==
  With(full_raise_all(h, trace, args, <<>>),
    LAMBDA fr : With(new_args(fr.h, Trace(trace.level, trace.sublevel + 1),
                              call_pvals(fr.h, fr.r, kind = "map"), <<>>),
      LAMBDA a : [h |-> a.h,
                  frame |-> Frame(kind, Len(fr.h), a.r, fr.r,
                                  IF kind = "map" THEN {<<"axis_size", 2>>} ELSE {})]))

\* call_bind of a call or map primitive on tracers: the arguments are raised
\* to the current trace and the callee starts on new_arg tracers of a trace
\* one sublevel up
CallBegin ==
  /\ status = "run"
  /\ steps > 0
  /\ steps' = steps - 1
  /\ Len(frames) < MaxDepth
  /\ \E kind \in {"call", "map"} : \E args \in SeqsOf(Vals, 2) :
       /\ \E i \in DOMAIN args : IsTracer(args[i])
       /\ \E r \in {call_begin(tracers, cur_trace, kind, args)} :
             /\ Len(r.h) <= MaxTracers
             /\ tracers' = r.h
             /\ frames' = Append(frames, r.frame)
             /\ last' = [op |-> "call_begin"]
  /\ UNCHANGED <<status, ext, pe, jn, hcb, cc>>

call_end_2(o, fm, caller, sub) ==
  With(IF fm.kind = "map"
       THEN process_map(o.h, caller, "map", fm.args, fm.params, sub, o.h[o.r].pval)
       ELSE process_call(o.h, caller, "call", fm.args, fm.params, sub, o.h[o.r].pval),
    LAMBDA r : [h |-> r.h, ext |-> sub,
                last |-> [op |-> fm.kind, tracers |-> fm.args, out |-> r.r,
                          h |-> o.h, in_tracers |-> fm.in_tracers,
                          callee_out |-> o.r,
                          store |-> IF fm.kind = "map"
                                    THEN jaxpr_converted_obj(<<sub.jaxpr>>, 1).st
                                    ELSE <<sub.jaxpr>>]])

call_end(h, trace, fm, out) ==
  With(full_raise(h, trace, out),
    LAMBDA o : {call_end_2(o, fm, Trace(trace.level, trace.sublevel - 1), sub) :
                  sub \in extractions(tracers_to_jaxpr(o.h, fm.in_tracers, o.r))})

\* the callee returns out: its trace is extracted and the caller's trace
\* records the equation of the call
CallEnd ==
  /\ status = "run"
  /\ steps > 0
  /\ steps' = steps - 1
  /\ Len(frames) > 1
  /\ \E out \in Vals :
       \E r \in call_end(tracers, cur_trace, frames[Len(frames)], out) :
          /\ Len(r.h) <= MaxTracers
          /\ tracers' = r.h
          /\ frames' = SubSeq(frames, 1, Len(frames) - 1)
          /\ ext' = r.ext
          /\ status' = IF r.ext.err THEN "error" ELSE "run"
          /\ last' = r.last
  /\ UNCHANGED <<pe, jn, hcb, cc>>

finish(h, trace, in_tracers, out, instantiate) ==
  With(full_raise(h, trace, out),
    LAMBDA o : With(IF instantiate THEN instantiate_const(o.h, trace, o.r) ELSE o,
      LAMBDA i : [h |-> i.h, out |-> i.r,
                  ext |-> tracers_to_jaxpr(i.h, in_tracers, i.r)]))

\* the traced function returns out: trace_to_subjaxpr 406-414 and the
\* assertion of trace_to_jaxpr that no free variable is left
Finish ==
  /\ status = "run"
  /\ steps > 0
  /\ steps' = steps - 1
  /\ Len(frames) = 1
  /\ \E out \in Vals : \E instantiate \in BOOLEAN :
       \E r \in {finish(tracers, cur_trace, frames[1].in_tracers, out, instantiate)} :
          /\ Len(r.h) <= MaxTracers
          /\ tracers' = r.h
          /\ ext' \in extractions(r.ext)
          /\ status' = IF r.ext.err \/ r.ext.env # <<>> THEN "error" ELSE "done"
          /\ last' = [op |-> "trace_to_jaxpr", out |-> r.out]
  /\ UNCHANGED <<frames, pe, jn, hcb, cc>>

Next == Bind \/ Pack \/ Unpack \/ NewConst \/ Finish

NextCall == Bind \/ CallBegin \/ CallEnd

Spec == Init /\ [][Next]_vars

SpecCall == InitCall /\ [][NextCall]_vars


(***************************************************************************)
(* Properties of the extracted Jaxpr.                                      *)
(***************************************************************************)
\* an extraction returned a Jaxpr (no assertion failed)
Extracted == ext # NoExt /\ ~ext.err

\* the Variables an equation reads: its inputs and the constant and
\* free-variable captures of its bound sub-graphs
Uses(eqn) ==
  Range(eqn.invars) \cup
  UNION {Range(eqn.bound_subjaxprs[i].c) \cup Range(eqn.bound_subjaxprs[i].f) :
           i \in DOMAIN eqn.bound_subjaxprs}

\* the Variables bound before position k of the equation list of jaxpr
BoundBefore(jaxpr, k) ==
  {unitvar} \cup Range(jaxpr.constvars) \cup Range(jaxpr.freevars)
    \cup Range(jaxpr.invars)
    \cup UNION {Range(jaxpr.eqns[i].outvars) : i \in 1..(k - 1)}

NoForwardReferences(jaxpr) ==
  /\ \A k \in DOMAIN jaxpr.eqns : Uses(jaxpr.eqns[k]) \subseteq BoundBefore(jaxpr, k)
  /\ jaxpr.outvar \in BoundBefore(jaxpr, Len(jaxpr.eqns) + 1)

\* C1: the Jaxpr returned by tracers_to_jaxpr has no forward references:
\* every Variable read by an equation (as an input or as a capture of a bound
\* sub-graph) and the output Variable is the unit variable, a constvar, a
\* freevar, an invar or an output of an earlier equation.
C1_NoForwardReferences == Extracted => NoForwardReferences(ext.jaxpr)

(***************************************************************************)
(* Destructuring in the extracted Jaxpr.                                   *)
(***************************************************************************)
\* the child tracers of unpack calls that the extraction visited
DestrTracers == {t \in Range(ext.sorted) : tracers[t].recipe.k = "destr"}

\* the children of one unpack call (its key) among them
ChildrenOf(key) == {t \in DestrTracers : tracers[t].recipe.key = key}

DestrKeys == {tracers[t].recipe.key : t \in DestrTracers}

DestrEqns == {e \in DOMAIN ext.jaxpr.eqns : ext.jaxpr.eqns[e].destructure}

\* the destructuring equations that bind the Variable of a child of key
EqnsOf(key) ==
  {e \in DestrEqns :
     \E t \in ChildrenOf(key) : ext.t_to_var[t] \in Range(ext.jaxpr.eqns[e].outvars)}

\* C3: for every unpack call of which at least one child tracer is reachable
\* from the output, the extracted Jaxpr has exactly one destructuring
\* equation, with as many output Variables as the unpacked tracer has
\* components, and every reachable child maps to the output Variable at its
\* own index of that equation; no other destructuring equation is emitted.
C3_OneDestructuringEqn ==
  Extracted =>
    /\ Cardinality(DestrEqns) = Cardinality(DestrKeys)
    /\ \A key \in DestrKeys :
         /\ Cardinality(EqnsOf(key)) = 1
         /\ \A e \in EqnsOf(key) : \A t \in ChildrenOf(key) :
              /\ Len(ext.jaxpr.eqns[e].outvars) = Len(tracers[t].recipe.eqn.outvars)
              /\ ext.jaxpr.eqns[e].outvars[tracers[t].recipe.i] = ext.t_to_var[t]
              /\ Cardinality(Range(ext.jaxpr.eqns[e].outvars))
                   = Len(ext.jaxpr.eqns[e].outvars)

\* two children of one unpack call of a two-component tracer are used
C3_Witness ==
  /\ Extracted
  /\ \E key \in DestrKeys :
       /\ Cardinality(ChildrenOf(key)) = 2
       /\ \A t \in ChildrenOf(key) : Len(tracers[t].recipe.eqn.outvars) = 2

(***************************************************************************)
(* process_primitive.                                                      *)
(***************************************************************************)
\* the tracer that instantiate_const gives for tracer a of heap h is tracer b
\* of heap g: a itself when it is unknown, and for a fully-known one a new
\* tracer for the explicit constant
InstantiatedFrom(h, a, g, b) ==
  IF IsAbstractValue(h[a].pval.pv) THEN b = a
  ELSE /\ b > Len(h)
       /\ g[b].recipe = ConstVar(h[a].pval.const)
       /\ g[b].pval = PartialVal(get_aval(h, h[a].pval.const), unit)
       /\ g[b].trace = h[a].trace

\* C4: process_primitive returns a new tracer that is Unknown at the type
\* abstract_eval returns on the inputs' types, with an equation of the
\* primitive whose inputs are the input tracers after instantiate_const, in
\* order; no input of the equation is fully known, whatever the inputs were.
C4_ProcessPrimitive ==
  last.op = "process_primitive" =>
    /\ last.out = Len(tracers)
    /\ last.out > Len(last.h)
    /\ tracers[last.out].recipe.k = "eqn"
    /\ tracers[last.out].recipe.eqn.primitive = last.primitive
    /\ tracers[last.out].recipe.eqn.bound_subjaxprs = <<>>
    /\ Len(tracers[last.out].recipe.eqn.invars) = Len(last.tracers)
    /\ \A i \in DOMAIN last.tracers :
         /\ InstantiatedFrom(last.h, last.tracers[i], tracers,
                             tracers[last.out].recipe.eqn.invars[i])
         /\ IsAbstractValue(tracers[tracers[last.out].recipe.eqn.invars[i]].pval.pv)
    /\ tracers[last.out].pval =
         PartialVal(abstract_eval(last.primitive,
                      [i \in DOMAIN last.tracers |->
                         tracers[tracers[last.out].recipe.eqn.invars[i]].pval.pv]),
                    unit)
    /\ IsAbstractValue(tracers[last.out].pval.pv)

\* a primitive of two arguments was applied to fully-known tracers only
C4_Witness ==
  /\ last.op = "process_primitive"
  /\ Len(last.tracers) = 2
  /\ \A i \in DOMAIN last.tracers : last.h[last.tracers[i]].pval.pv = None
  /\ last.tracers[1] # last.tracers[2]

(***************************************************************************)
(* Levels.                                                                 *)
(***************************************************************************)
\* C9: the constant of a tracer, when it is a tracer itself, belongs to a
\* trace of a strictly lower level than the tracer's trace; and new_const on
\* a tracer of the same or a higher level fails and creates no tracer.
C9_ConstLevels ==
  /\ \A i \in DOMAIN tracers :
       IsTracer(tracers[i].pval.const) =>
         level_of(tracers, tracers[i].pval.const) < tracers[i].trace.level
  /\ (/\ last.op = "new_const"
      /\ IsTracer(last.val)
      /\ level_of(tracers, last.val) >= last.trace.level)
       => /\ status = "error"
          /\ Len(tracers) = last.n

\* a tracer of a lower level was wrapped, then one of a higher level refused
C9_Witness ==
  /\ \E i \in DOMAIN tracers : IsTracer(tracers[i].pval.const)
  /\ last.op = "new_const"
  /\ IsTracer(last.val)
  /\ level_of(tracers, last.val) > last.trace.level
  /\ status = "error"

(***************************************************************************)
(* process_call and process_map.                                           *)
(***************************************************************************)
\* the equation tracer of the call that just returned and its sub-graph
CallTracer == tracers[last.out]
CallEqn == CallTracer.recipe.eqn
BoundSub == CallEqn.bound_subjaxprs[1]

\* the tracers made since the callee returned (the heap was last.h then)
NewIds == (Len(last.h) + 1)..Len(tracers)

\* ids are one instantiated constant tracer of trace per value of consts
ConstTracersOf(ids, consts, trace) ==
  /\ Len(ids) = Len(consts)
  /\ \A i \in DOMAIN ids :
       /\ ids[i] \in NewIds
       /\ tracers[ids[i]] =
            JaxprTracer(trace, PartialVal(get_aval(tracers, consts[i]), unit),
                        ConstVar(consts[i]))

\* ids are the values of env raised to trace: the tracer itself when it is
\* of that trace, and a new tracer with a FreeVar recipe for it otherwise
RaisedTo(ids, env, trace) ==
  /\ Len(ids) = Len(env)
  /\ \A i \in DOMAIN ids :
       /\ tracers[ids[i]].trace = trace
       /\ \/ ids[i] = env[i].id
          \/ /\ ids[i] \in NewIds
             /\ tracers[ids[i]].recipe = FreeVar(env[i])
             /\ tracers[ids[i]].pval = tracers[env[i].id].pval

\* C5: process_call records one equation for the call, whose inputs are the
\* argument tracers in order and whose one bound sub-graph is the Jaxpr
\* extracted from the callee's trace on the arguments' partial values, with
\* the callee's constants as instantiated constant tracers of the current
\* trace and its environment as tracers raised to the current trace.
C5_ProcessCall ==
  last.op = "call" =>
    /\ last.out = Len(tracers)
    /\ CallTracer.trace = cur_trace
    /\ CallTracer.recipe.k = "eqn"
    /\ Cardinality({i \in NewIds : tracers[i].recipe.k = "eqn"}) = 1
    /\ CallEqn.primitive = "call"
    /\ CallEqn.invars = last.tracers
    /\ Len(CallEqn.bound_subjaxprs) = 1
    /\ \A i \in DOMAIN last.tracers :
         /\ last.h[last.in_tracers[i]].pval = last.h[last.tracers[i]].pval
         /\ last.h[last.in_tracers[i]].recipe = LambdaBinding
    /\ Len(last.in_tracers) = Len(last.tracers)
    /\ ext \in extractions(tracers_to_jaxpr(last.h, last.in_tracers, last.callee_out))
    /\ BoundSub.jaxpr = ext.jaxpr
    /\ ConstTracersOf(BoundSub.c, ext.consts, cur_trace)
    /\ RaisedTo(BoundSub.f, ext.env, cur_trace)
    /\ CallTracer.pval = last.h[last.callee_out].pval

\* a call of two different arguments returned whose callee had a residual
\* constant
C5_Witness ==
  /\ last.op = "call"
  /\ Len(last.tracers) = 2
  /\ last.tracers[1] # last.tracers[2]
  /\ ext.consts # <<>>
  /\ BoundSub.c # <<>>

\* the descriptor with its leading axis removed, and with an axis added
AxisRemoved(pv, reduced) ==
  IF pv = None THEN reduced = None
  ELSE /\ reduced.k = "arr"
       /\ reduced.dtype = pv.dtype
       /\ pv.shape # <<>> => <<pv.shape[1]>> \o reduced.shape = pv.shape

AxisAdded(size, reduced, pv) ==
  IF reduced = None THEN pv = None
  ELSE /\ pv.k = "arr"
       /\ pv.dtype = reduced.dtype
       /\ pv.shape = <<size>> \o reduced.shape

\* C6: process_map traces the callee on the arguments' descriptors with the
\* leading axis removed (None stays None), gives the output descriptor the
\* axis params['axis_size'] back, and records an equation whose sub-graph has
\* no constvars and the callee's constvars followed by its invars as invars,
\* and whose inputs are the constant tracers followed by the argument
\* tracers, as many as the sub-graph's invars.
C6_ProcessMap ==
  last.op = "map" =>
    /\ \A i \in DOMAIN last.tracers :
         /\ AxisRemoved(last.h[last.tracers[i]].pval.pv,
                        last.h[last.in_tracers[i]].pval.pv)
         /\ last.h[last.in_tracers[i]].pval.const = last.h[last.tracers[i]].pval.const
    /\ AxisAdded(Param(CallEqn.params, "axis_size"),
                 last.h[last.callee_out].pval.pv, CallTracer.pval.pv)
    /\ CallTracer.pval.const = last.h[last.callee_out].pval.const
    /\ CallEqn.primitive = "map"
    /\ Len(CallEqn.bound_subjaxprs) = 1
    /\ BoundSub.jaxpr.constvars = <<>>
    /\ BoundSub.jaxpr.invars = ext.jaxpr.constvars \o ext.jaxpr.invars
    /\ BoundSub.jaxpr.eqns = ext.jaxpr.eqns
    /\ BoundSub.jaxpr.outvar = ext.jaxpr.outvar
    /\ BoundSub.c = <<>>
    /\ Len(CallEqn.invars) = Len(ext.consts) + Len(last.tracers)
    /\ ConstTracersOf(SubSeq(CallEqn.invars, 1, Len(ext.consts)), ext.consts, cur_trace)
    /\ SubSeq(CallEqn.invars, Len(ext.consts) + 1, Len(CallEqn.invars)) = last.tracers
    /\ Len(CallEqn.invars) = Len(BoundSub.jaxpr.invars)

\* a map over a known and an unknown argument returned whose callee had a
\* residual constant
C6_Witness ==
  /\ last.op = "map"
  /\ Len(last.tracers) = 2
  /\ \E i \in DOMAIN last.tracers : last.h[last.tracers[i]].pval.pv = None
  /\ \E i \in DOMAIN last.tracers : last.h[last.tracers[i]].pval.pv # None
  /\ ext.consts # <<>>
  /\ CallTracer.pval.pv # None

(***************************************************************************)
(* instantiate_const.                                                      *)
(***************************************************************************)
\* instantiate_const applied to t in the heap h0 gave t2 in the heap now
Instantiated(h0, t, t2) ==
  /\ IsAbstractValue(h0[t].pval.pv) => t2 = t
  /\ h0[t].pval.pv = None =>
       /\ t2 > Len(h0)
       /\ tracers[t2].trace = h0[t].trace
       /\ tracers[t2].pval = PartialVal(get_aval(h0, h0[t].pval.const), unit)
       /\ tracers[t2].recipe = ConstVar(h0[t].pval.const)
  /\ instantiate_const(tracers, tracers[t2].trace, t2) = R(tracers, t2)

\* the extraction binds the Variable of a tracer of recipe ConstVar among
\* the constvars, to the value of the recipe
ConstBound(id) ==
  \E j \in DOMAIN ext.jaxpr.constvars :
    /\ ext.jaxpr.constvars[j] = ext.t_to_var[id]
    /\ ext.consts[j] = tracers[id].recipe.val

\* C19: instantiate_const, which process_primitive applies to each input,
\* returns an unknown tracer as it is and makes of a fully-known tracer a new
\* tracer of the same trace, Unknown at the abstract type of the constant,
\* that the extraction binds as a constant to that value; applied to its
\* result it returns the result.
C19_InstantiateConst ==
  /\ last.op = "process_primitive" =>
       \A i \in DOMAIN last.tracers :
         Instantiated(last.h, last.tracers[i],
                      tracers[last.out].recipe.eqn.invars[i])
  /\ Extracted =>
       \A i \in DOMAIN ext.sorted :
         tracers[ext.sorted[i]].recipe.k = "constvar" => ConstBound(ext.sorted[i])

\* an extraction with a constant made by instantiate_const
C19_Witness ==
  /\ Extracted
  /\ \E i \in DOMAIN ext.sorted : tracers[ext.sorted[i]].recipe.k = "constvar"
  /\ ext.jaxpr.constvars # <<>>
  /\ last.op = "trace_to_jaxpr"

(***************************************************************************)
(* The Variables of one extraction.                                        *)
(***************************************************************************)
\* the tracers one extraction looks at
Visited == Range(ext.sorted) \cup Range(ext.in_tracers) \cup {ext.out_tracer}

\* tracers that the extraction names with a Variable of their own
OwnVar(t) == tracers[t].recipe.k \in {"lambda", "constvar", "freevar", "eqn"}

VarOf(t) == ext.t_to_var[t]

VarsOfAll(ts) == [i \in DOMAIN ts |-> VarOf(ts[i])]

\* the equation made of the recipe equation eqn has the Variables of the
\* tracers that eqn reads, in its inputs and in its sub-graphs' captures
ReadsVarsOf(e, eqn) ==
  /\ e.invars = VarsOfAll(eqn.invars)
  /\ Len(e.bound_subjaxprs) = Len(eqn.bound_subjaxprs)
  /\ \A i \in DOMAIN eqn.bound_subjaxprs :
       /\ e.bound_subjaxprs[i].c = VarsOfAll(eqn.bound_subjaxprs[i].c)
       /\ e.bound_subjaxprs[i].f = VarsOfAll(eqn.bound_subjaxprs[i].f)

\* every use of a tracer is the tracer's one Variable
SameVarEveryUse ==
  /\ ext.jaxpr.invars = VarsOfAll(ext.in_tracers)
  /\ ext.jaxpr.outvar = VarOf(ext.out_tracer)
  /\ \A i \in DOMAIN ext.sorted :
       With(tracers[ext.sorted[i]].recipe,
         LAMBDA recipe :
           CASE recipe.k = "eqn" ->
                  \E k \in DOMAIN ext.jaxpr.eqns :
                    /\ ext.jaxpr.eqns[k].outvars = <<VarOf(ext.sorted[i])>>
                    /\ ReadsVarsOf(ext.jaxpr.eqns[k], recipe.eqn)
             [] recipe.k = "destr" ->
                  \E k \in DOMAIN ext.jaxpr.eqns :
                    /\ Len(ext.jaxpr.eqns[k].outvars) = Len(recipe.eqn.outvars)
                    /\ ext.jaxpr.eqns[k].outvars[recipe.i] = VarOf(ext.sorted[i])
                    /\ ReadsVarsOf(ext.jaxpr.eqns[k], recipe.eqn)
             [] recipe.k = "constvar" -> VarOf(ext.sorted[i]) \in Range(ext.jaxpr.constvars)
             [] recipe.k = "freevar" -> VarOf(ext.sorted[i]) \in Range(ext.jaxpr.freevars)
             [] OTHER -> TRUE)

\* distinct tracers with a Variable of their own have Variables of
\* different counter values
DistinctVars ==
  \A t1, t2 \in Visited :
    (t1 # t2 /\ OwnVar(t1) /\ OwnVar(t2)
       /\ VarOf(t1) # NoneVar /\ VarOf(t2) # NoneVar)
    => VarOf(t1).count # VarOf(t2).count

\* the Variables the Jaxpr binds, in order
BoundSeq(jaxpr) ==
  jaxpr.constvars \o jaxpr.freevars \o jaxpr.invars
    \o Concat([k \in DOMAIN jaxpr.eqns |-> jaxpr.eqns[k].outvars])

BoundAtMostOnce(jaxpr) ==
  \A i, j \in DOMAIN BoundSeq(jaxpr) :
    i # j => BoundSeq(jaxpr)[i] # BoundSeq(jaxpr)[j]

\* the Variables of the Jaxpr: those it binds and those it reads; the unit
\* Variable is a literal
VarsOfJaxpr(jaxpr) ==
  (Range(BoundSeq(jaxpr)) \cup {jaxpr.outvar}
     \cup UNION {Uses(jaxpr.eqns[k]) : k \in DOMAIN jaxpr.eqns}) \ {unitvar}

BoundOnce(jaxpr) ==
  /\ BoundAtMostOnce(jaxpr)
  /\ VarsOfJaxpr(jaxpr) \subseteq Range(BoundSeq(jaxpr))

\* C20: in one extraction every use of a tracer is the same Variable,
\* distinct tracers of an input, constant, free-variable or equation recipe
\* have Variables of distinct counter values, and every Variable of the
\* Jaxpr is bound exactly once among constvars, freevars, invars and
\* equation outputs.
C20_SingleAssignment ==
  Extracted => SameVarEveryUse /\ DistinctVars /\ BoundOnce(ext.jaxpr)

(***************************************************************************)
(* The explicit inputs of an extracted Jaxpr.                              *)
(***************************************************************************)
\* C21: the invars of the Jaxpr tracers_to_jaxpr returns are one Variable
\* per input tracer, in the order of the arguments, also for an input tracer
\* the output does not depend on.
C21_InvarsPerArgument ==
  Extracted =>
    /\ Len(ext.jaxpr.invars) = Len(ext.in_tracers)
    /\ \A i \in DOMAIN ext.in_tracers :
         /\ ext.jaxpr.invars[i] = VarOf(ext.in_tracers[i])
         /\ ext.jaxpr.invars[i] = Var(i - 1, "")
    /\ \A i, j \in DOMAIN ext.jaxpr.invars :
         i # j => ext.jaxpr.invars[i] # ext.jaxpr.invars[j]

\* two arguments, and the output depends on the second one only
C21_Witness ==
  /\ Extracted
  /\ Len(ext.in_tracers) = 2
  /\ ext.in_tracers[1] \notin Range(ext.sorted)
  /\ ext.in_tracers[2] \in Range(ext.sorted)
  /\ ext.jaxpr.eqns # <<>>
  /\ ext.jaxpr.invars = <<Var(0, ""), Var(1, "")>>

(***************************************************************************)
(* Two extractions of one tracer graph.                                    *)
(***************************************************************************)
\* Var.__repr__ (484-492): the letters of the count in base 26, most
\* significant first, then the suffix
RECURSIVE repr_loop(_, _)
repr_loop(rem, s) ==
  IF rem \div 26 = 0 THEN <<97 + (rem % 26)>> \o s
  ELSE repr_loop(rem \div 26, <<97 + (rem % 26)>> \o s)

repr(v) == [letters |-> repr_loop(v.count, <<>>), suffix |-> v.suffix]

reprs(vs) == [i \in DOMAIN vs |-> repr(vs[i])]

\* the printed form of a Jaxpr: the names of its constvars, freevars and
\* invars in their order, its equations in their order, and its output
Printed(jaxpr) ==
  [constvars |-> reprs(jaxpr.constvars), freevars |-> reprs(jaxpr.freevars),
   invars |-> reprs(jaxpr.invars), outvar |-> repr(jaxpr.outvar),
   eqns |-> [i \in DOMAIN jaxpr.eqns |->
               [outvars |-> reprs(jaxpr.eqns[i].outvars),
                primitive |-> jaxpr.eqns[i].primitive,
                invars |-> reprs(jaxpr.eqns[i].invars)]]]

\* the outcomes of extracting once more the tracer graph trace_to_jaxpr
\* has extracted
ExtractedAgain ==
  extractions(tracers_to_jaxpr(tracers, ext.in_tracers, ext.out_tracer))

\* C23: two extractions of the same tracer graph give the same Variable
\* names, the same order of constvars, freevars and invars, the same order
\* of equations, and the same printed form.
C23_Deterministic ==
  status = "done" =>
    \A e \in ExtractedAgain :
      /\ e.jaxpr = ext.jaxpr
      /\ Printed(e.jaxpr) = Printed(ext.jaxpr)

\* the constvars of a Jaxpr paired with their values
ConstPairs(e) == {<<e.jaxpr.constvars[i], e.consts[i]>> : i \in DOMAIN e.consts}

\* what two extractions of the same tracer graph do share: the Variable of
\* every tracer (each numbers from zero), the invars, the equations and
\* their order, the output, and the constvars with their values as a set
C23_SameNames ==
  status = "done" =>
    \A e \in ExtractedAgain :
      /\ e.t_to_var = ext.t_to_var
      /\ e.jaxpr.invars = ext.jaxpr.invars
      /\ e.jaxpr.eqns = ext.jaxpr.eqns
      /\ e.jaxpr.outvar = ext.jaxpr.outvar
      /\ ConstPairs(e) = ConstPairs(ext)
      /\ Printed(e.jaxpr).eqns = Printed(ext.jaxpr).eqns

\* an extraction of a trace with two constants
C23_TwoConsts ==
  /\ status = "done"
  /\ Len(ext.consts) = 2
  /\ ext.jaxpr.eqns # <<>>

(***************************************************************************)
(* trace_to_jaxpr returns closed Jaxprs.                                   *)
(***************************************************************************)
\* C24: trace_to_jaxpr returns no Jaxpr with free variables: an extraction
\* with a non-empty env fails the assertion, and a Jaxpr that is returned
\* has no freevars and as many constant values as constvars, the value at
\* position i being the value of the ConstVar recipe of the tracer named by
\* constvar i.
C24_Closed ==
  /\ (last.op = "trace_to_jaxpr" /\ ext.env # <<>>) => status = "error"
  /\ status = "done" =>
       /\ ext.env = <<>>
       /\ ext.jaxpr.freevars = <<>>
       /\ Len(ext.consts) = Len(ext.jaxpr.constvars)
       /\ \A i \in DOMAIN ext.consts :
            \E t \in DOMAIN tracers :
              /\ ext.t_to_var[t] = ext.jaxpr.constvars[i]
              /\ tracers[t].recipe = ConstVar(ext.consts[i])

\* a trace whose output depends on a free variable
C24_Asserted ==
  /\ last.op = "trace_to_jaxpr"
  /\ ext.env # <<>>
  /\ status = "error"

\* a Jaxpr with two constants of different values is returned
C24_Witness ==
  /\ status = "done"
  /\ Len(ext.consts) = 2
  /\ ext.consts[1] # ext.consts[2]
  /\ ext.jaxpr.eqns # <<>>

(***************************************************************************)
(* The tracers an equation refers to.                                      *)
(***************************************************************************)
\* the tracers the equation eqn of a recipe refers to: its inputs and the
\* constant and free-variable captures of its bound sub-graphs
TracersOfEqn(eqn) ==
  Range(eqn.invars) \cup
  UNION {Range(eqn.bound_subjaxprs[i].c) \cup Range(eqn.bound_subjaxprs[i].f) :
           i \in DOMAIN eqn.bound_subjaxprs}

\* every tracer an equation of a trace refers to is a tracer of that trace
EquationsOfOneTrace ==
  \A t \in DOMAIN tracers :
    tracers[t].recipe.k \in {"eqn", "destr"} =>
      \A u \in TracersOfEqn(tracers[t].recipe.eqn) :
        tracers[u].trace = tracers[t].trace

\* C25: the free-variable captures of the sub-graph bound in the equation
\* process_map records are the callee's env raised to the current trace, as
\* for process_call, so that every tracer an equation of a trace refers to
\* is a tracer of that trace.
C25_CapturesRaised ==
  /\ last.op \in {"call", "map"} => RaisedTo(BoundSub.f, ext.env, cur_trace)
  /\ EquationsOfOneTrace

\* the same of process_call alone, and of the equations no map has a
\* capture in
C25_CallCapturesRaised ==
  /\ last.op = "call" => RaisedTo(BoundSub.f, ext.env, cur_trace)
  /\ \A t \in DOMAIN tracers :
       (tracers[t].recipe.k \in {"eqn", "destr"}
          /\ tracers[t].recipe.eqn.primitive # "map") =>
         \A u \in TracersOfEqn(tracers[t].recipe.eqn) :
           tracers[u].trace = tracers[t].trace

\* a call returned whose callee closed over a tracer of an outer trace
C25_CallWitness ==
  /\ last.op = "call"
  /\ ext.env # <<>>
  /\ \E i \in DOMAIN ext.env : BoundSub.f[i] # ext.env[i].id

(***************************************************************************)
(* The lattice of partial values: join_pvals.                              *)
(***************************************************************************)
MaxVal == 2

UnshapedArray(dtype) == [k |-> "unshaped", dtype |-> dtype]

\* a plain Python tuple, as tuple(join_consts) makes
PyTuple(elts) == [k |-> "ptup", elts |-> elts]

\* an exception raised
Error == [k |-> "error"]

IsError(x) == x = Error

RECURSIVE lattice_join(_, _)
\* core.lattice_join: the join of two abstract values.  Two equal values join
\* to themselves, arrays of the same shape and dtype to the ShapedArray, of
\* the same dtype to the UnshapedArray, tuples component by component.
lattice_join(a1, a2) ==
  IF a1 = a2 THEN a1
  ELSE IF a1.k = "atup" /\ a2.k = "atup"
       THEN IF Len(a1.elts) # Len(a2.elts) THEN Error
            ELSE With([i \in DOMAIN a1.elts |-> lattice_join(a1.elts[i], a2.elts[i])],
                   LAMBDA js : IF \E i \in DOMAIN js : IsError(js[i]) THEN Error
                               ELSE AbstractTuple(js))
       ELSE IF a1.k = "atup" \/ a2.k = "atup" THEN Error
       ELSE IF a1.dtype # a2.dtype THEN Error
       ELSE IF a1.k # "unshaped" /\ a2.k # "unshaped" /\ a1.shape = a2.shape
            THEN ShapedArray(a1.shape, a1.dtype)
            ELSE UnshapedArray(a1.dtype)

\* the comparison that takes the shape and the dtype of the constants only
equal_avals_mut(h, const1, const2) ==
  With(get_aval(h, const1),
    LAMBDA aval1 : With(get_aval(h, const2),
      LAMBDA aval2 : IF aval1.k = "conc" /\ aval2.k = "conc"
                     THEN aval1.shape = aval2.shape /\ aval1.dtype = aval2.dtype
                     ELSE aval1.k = aval2.k))

\* aval1 == aval2 of two fully-known partial values (326-327)
equal_avals(h, const1, const2) == get_aval(h, const1) = get_aval(h, const2)

\* the components of a descriptor in the tuple case: a fully-known operand
\* counts as [None] * len(other)
pv_elts(pv, other) ==
  IF pv = None THEN [i \in DOMAIN other.elts |-> None] ELSE pv.elts

\* what zip(pv, const) can iterate over
zippable(pv, const, other) ==
  /\ pv.k \in {"none", "jtt", "atup"}
  /\ pv = None => other.k \in {"jtt", "atup"}
  /\ const.k \in {"tup", "ptup"}
  /\ Len(pv_elts(pv, other)) = Len(const.elts)

\* the tuple branch with the values left out
join_tuple_mut(js) ==
  PartialVal(JaxprTracerTuple([i \in DOMAIN js |-> js[i].pv]), unit)

\* the result of the tuple branch, of the joined components (348-351)
join_tuple(js) ==
  IF \A i \in DOMAIN js : IsAbstractValue(js[i].pv)
  THEN PartialVal(AbstractTuple([i \in DOMAIN js |-> js[i].pv]),
                  PyTuple([i \in DOMAIN js |-> js[i].const]))
  ELSE PartialVal(JaxprTracerTuple([i \in DOMAIN js |-> js[i].pv]),
                  PyTuple([i \in DOMAIN js |-> js[i].const]))

RECURSIVE join_pvals(_, _, _)
join_pvals(h, pval1, pval2) ==
  IF pval1.pv = None /\ pval2.pv = None
  THEN IF equal_avals(h, pval1.const, pval2.const)
       THEN pval1
       ELSE With(lattice_join(get_aval(h, pval1.const), get_aval(h, pval2.const)),
              LAMBDA a : IF IsError(a) THEN Error ELSE PartialVal(a, unit))
  ELSE IF pval1.pv = None /\ IsAbstractValue(pval2.pv)
       THEN PartialVal(pval2.pv, unit)
  ELSE IF IsAbstractValue(pval1.pv) /\ pval2.pv = None
       THEN PartialVal(pval1.pv, unit)
  ELSE IF IsAbstractValue(pval1.pv) /\ IsAbstractValue(pval2.pv)
       THEN With(lattice_join(pval1.pv, pval2.pv),
              LAMBDA a : IF IsError(a) THEN Error ELSE PartialVal(a, unit))
  ELSE IF \/ ~zippable(pval1.pv, pval1.const, pval2.pv)
          \/ ~zippable(pval2.pv, pval2.const, pval1.pv)
          \/ Len(pv_elts(pval1.pv, pval2.pv)) # Len(pv_elts(pval2.pv, pval1.pv))
       THEN Error
  ELSE With([i \in DOMAIN pval1.const.elts |->
               join_pvals(h, PartialVal(pv_elts(pval1.pv, pval2.pv)[i], pval1.const.elts[i]),
                             PartialVal(pv_elts(pval2.pv, pval1.pv)[i], pval2.const.elts[i]))],
         LAMBDA js :
           IF \E i \in DOMAIN js : IsError(js[i]) THEN Error
           ELSE join_tuple(js))

RECURSIVE merge_pvals(_, _)
merge_pvals(val, pval) ==
  IF IsAbstractValue(pval.pv) THEN val
  ELSE IF pval.pv.k = "jtt"
       THEN IF val.k = "tup" /\ pval.const.k = "tup"
               /\ Len(val.elts) = Len(pval.pv.elts)
               /\ Len(pval.const.elts) = Len(pval.pv.elts)
            THEN JaxTuple([i \in DOMAIN val.elts |->
                             merge_pvals(val.elts[i],
                                         PartialVal(pval.pv.elts[i], pval.const.elts[i]))])
            ELSE Error
       ELSE pval.const

\* core.concrete_aval: the abstract value of a concrete value; a TypeError
\* for what is not one
concrete_aval(x) == IF IsTracer(x) THEN Error ELSE get_aval(<<>>, x)

\* the wrapping that marks the value fully known
abstractify_mut(x) == PartialVal(None, unit)

abstractify(x) ==
  With(concrete_aval(x),
    LAMBDA a : IF IsError(a) THEN Error ELSE PartialVal(a, unit))

RECURSIVE as_abstract_val(_)
\* a fully-known descriptor given the type of the empty tuple
as_abstract_val_mut(pv) ==
  IF IsAbstractValue(pv) THEN pv
  ELSE IF pv.k = "jtt"
       THEN With([i \in DOMAIN pv.elts |-> as_abstract_val(pv.elts[i])],
              LAMBDA as : IF \E i \in DOMAIN as : IsError(as[i]) THEN Error
                          ELSE AbstractTuple(as))
       ELSE abstract_unit

as_abstract_val(pv) ==
  IF IsAbstractValue(pv) THEN pv
  ELSE IF pv.k = "jtt"
       THEN With([i \in DOMAIN pv.elts |-> as_abstract_val(pv.elts[i])],
              LAMBDA as : IF \E i \in DOMAIN as : IsError(as[i]) THEN Error
                          ELSE AbstractTuple(as))
       ELSE Error

\* the partial values join_pvals is applied to: known and unknown arrays, and
\* the partial values pack_pvals makes of two of them
JoinScalars ==
  {PartialVal(None, Array(<<>>, v)) : v \in 1..MaxVal}
    \cup {PartialVal(None, Array(<<2>>, 1)),
          PartialVal(ShapedArray(<<>>, "f32"), unit),
          PartialVal(ShapedArray(<<2>>, "f32"), unit)}

JoinPvals ==
  JoinScalars \cup
  {pack_pvals(<<>>, 0, <<a, b>>).r :
     a, b \in {PartialVal(None, Array(<<>>, v)) : v \in 1..MaxVal}
                \cup {PartialVal(ShapedArray(<<>>, "f32"), unit)}}

InitJoin ==
  /\ tracers = <<>>
  /\ frames = <<>>
  /\ status = "run"
  /\ steps = 0
  /\ last = [op |-> "init"]
  /\ ext = NoExt
  /\ pe = [pc |-> "off"]
  /\ jn = [op |-> "init"]
  /\ hcb = [pc |-> "off"]
  /\ cc = [pc |-> "off"]

\* join_pvals(pval1, pval2)
Join ==
  /\ \E pval1 \in JoinPvals : \E pval2 \in JoinPvals :
       jn' = [op |-> "join", pval1 |-> pval1, pval2 |-> pval2,
              out |-> join_pvals(tracers, pval1, pval2)]
  /\ UNCHANGED <<tracers, frames, status, steps, last, ext, pe, hcb, cc>>

\* the concrete values: arrays, unit and the tuples of two of them
JoinVals ==
  With({Array(<<>>, v) : v \in 1..MaxVal} \cup {unit},
    LAMBDA xs : xs \cup {Array(<<2>>, 1)} \cup {JaxTuple(<<a, b>>) : a, b \in xs})

\* abstractify(x)
Abstractify ==
  /\ \E x \in JoinVals :
       jn' = [op |-> "abstractify", x |-> x, out |-> abstractify(x)]
  /\ UNCHANGED <<tracers, frames, status, steps, last, ext, pe, hcb, cc>>

\* merge_pvals(val, pval), on a partial value as above or on the one
\* abstractify made
Merge ==
  /\ \E val \in JoinVals :
       \E pval \in JoinPvals \cup (IF jn.op = "abstractify" THEN {jn.out} ELSE {}) :
         jn' = [op |-> "merge", val |-> val, pval |-> pval,
                out |-> merge_pvals(val, pval)]
  /\ UNCHANGED <<tracers, frames, status, steps, last, ext, pe, hcb, cc>>

\* descriptors: None, abstract values, and tuples of them two deep
JoinPvs ==
  With({None, ShapedArray(<<>>, "f32")},
    LAMBDA ps :
      With(ps \cup {JaxprTracerTuple(<<a, b>>) : a, b \in ps}
              \cup {AbstractTuple(<<ShapedArray(<<>>, "f32")>>)},
        LAMBDA qs : qs \cup {JaxprTracerTuple(<<a>>) : a \in qs}))

\* as_abstract_val(pv)
AsAbstractVal ==
  /\ \E pv \in JoinPvs :
       jn' = [op |-> "as_abstract_val", pv |-> pv, out |-> as_abstract_val(pv)]
  /\ UNCHANGED <<tracers, frames, status, steps, last, ext, pe, hcb, cc>>

NextJoin == Join \/ Abstractify \/ Merge \/ AsAbstractVal

SpecJoin == InitJoin /\ [][NextJoin]_vars

(***************************************************************************)
(* The join of two fully-known partial values.                             *)
(***************************************************************************)
RECURSIVE SameShape(_, _)
\* two constants of the same shape and dtype, whatever their contents
SameShape(x, y) ==
  IF x.k = "tup" /\ y.k = "tup"
  THEN /\ Len(x.elts) = Len(y.elts)
       /\ \A i \in DOMAIN x.elts : SameShape(x.elts[i], y.elts[i])
  ELSE /\ x.k = "c" /\ y.k = "c"
       /\ x.shape = y.shape /\ x.dtype = y.dtype

JoinedKnown == jn.op = "join" /\ jn.pval1.pv = None /\ jn.pval2.pv = None

IsArrayPval(pval) ==
  \/ pval.pv = None /\ pval.const.k = "c"
  \/ IsAbstractValue(pval.pv) /\ pval.pv.k # "atup"

\* the abstract type of an operand: a known operand has the abstract type of
\* its constant
AvalOf(pval) == IF pval.pv = None THEN get_aval(tracers, pval.const) ELSE pval.pv

JoinedArrays ==
  /\ jn.op = "join"
  /\ IsArrayPval(jn.pval1) /\ IsArrayPval(jn.pval2)
  /\ \/ AvalOf(jn.pval1) # AvalOf(jn.pval2)
     \/ jn.pval1.pv # None
     \/ jn.pval2.pv # None

\* C11: for partial values that are not tuples, when the abstract types of
\* the operands differ or an operand is unknown, join_pvals returns the
\* least upper bound of the two abstract types, with unit.
C11_JoinLub ==
  JoinedArrays =>
    jn.out = PartialVal(lattice_join(AvalOf(jn.pval1), AvalOf(jn.pval2)), unit)

(***************************************************************************)
(* The lattice laws of join_pvals.                                         *)
(***************************************************************************)
RECURSIVE ObsEq(_, _)
\* observational equality of values: a JaxTuple and the Python tuple of the
\* same components compare equal
ObsEq(x, y) ==
  IF x.k \in {"tup", "ptup"} /\ y.k \in {"tup", "ptup"}
  THEN /\ Len(x.elts) = Len(y.elts)
       /\ \A i \in DOMAIN x.elts : ObsEq(x.elts[i], y.elts[i])
  ELSE x = y

\* two partial values with the same descriptor and equal values
SamePval(p, q) ==
  IF IsError(p) \/ IsError(q) THEN p = q
  ELSE p.pv = q.pv /\ ObsEq(p.const, q.const)

NumElts(pval) ==
  IF pval.pv = None THEN Len(pval.const.elts) ELSE Len(pval.pv.elts)

\* operands of compatible structure: two arrays, or two tuples of the same
\* number of components
Compatible(p, q) ==
  \/ IsArrayPval(p) /\ IsArrayPval(q)
  \/ ~IsArrayPval(p) /\ ~IsArrayPval(q) /\ NumElts(p) = NumElts(q)

JoinedSelf == jn.op = "join" /\ jn.pval1 = jn.pval2

\* C13 as stated: join_pvals(pv, pv) equals pv, with the same descriptor and
\* the same value.
C13_JoinReflexive == JoinedSelf => SamePval(jn.out, jn.pval1)

RECURSIVE KnownEq(_, _, _)
\* the value x agrees with y on the fully-known components of the descriptor
\* pv and is unit where pv is abstract
KnownEq(pv, x, y) ==
  IF pv = None THEN ObsEq(x, y)
  ELSE IF pv.k = "jtt"
       THEN /\ x.k \in {"tup", "ptup"} /\ y.k \in {"tup", "ptup"}
            /\ Len(x.elts) = Len(pv.elts) /\ Len(y.elts) = Len(pv.elts)
            /\ \A i \in DOMAIN pv.elts : KnownEq(pv.elts[i], x.elts[i], y.elts[i])
       ELSE x = unit

\* C13 amended: join_pvals(pv, pv) has the descriptor of pv; its value is
\* that of pv on every fully-known component, and unit on every unknown one,
\* whatever placeholder pv carried there.
C13_JoinReflexiveKnown ==
  JoinedSelf =>
    /\ ~IsError(jn.out)
    /\ jn.out.pv = jn.pval1.pv
    /\ KnownEq(jn.out.pv, jn.out.const, jn.pval1.const)

\* a tuple of a known and an unknown component joined with itself
C13_Witness ==
  /\ JoinedSelf
  /\ jn.pval1.pv = JaxprTracerTuple(<<None, ShapedArray(<<>>, "f32")>>)
  /\ jn.out.pv = jn.pval1.pv
  /\ jn.out.const = PyTuple(jn.pval1.const.elts)

(***************************************************************************)
(* The join of tuples.                                                     *)
(***************************************************************************)
\* component i of a tuple operand; a fully-known operand counts as a tuple
\* of fully-known components
Comp(pval, i) ==
  PartialVal(IF pval.pv = None THEN None ELSE pval.pv.elts[i], pval.const.elts[i])

CompJoin(i) == join_pvals(tracers, Comp(jn.pval1, i), Comp(jn.pval2, i))

CompPvs == [i \in 1..NumElts(jn.pval1) |-> CompJoin(i).pv]

TupleOperands ==
  /\ jn.op = "join"
  /\ ~IsArrayPval(jn.pval1) /\ ~IsArrayPval(jn.pval2)
  /\ NumElts(jn.pval1) = NumElts(jn.pval2)

\* the result is made of the joins of the components: fully known only if
\* every component is, the abstract tuple if every component is unknown, and
\* a mixed tuple otherwise
Componentwise ==
  /\ ~IsError(jn.out)
  /\ \/ /\ jn.out.pv = None
        /\ \A i \in DOMAIN CompPvs : CompPvs[i] = None
     \/ /\ \A i \in DOMAIN CompPvs : IsAbstractValue(CompPvs[i])
        /\ jn.out.pv = AbstractTuple(CompPvs)
     \/ /\ \E i \in DOMAIN CompPvs : ~IsAbstractValue(CompPvs[i])
        /\ jn.out.pv = JaxprTracerTuple(CompPvs)

BothKnownDiffer ==
  /\ jn.pval1.pv = None /\ jn.pval2.pv = None
  /\ jn.pval1.const # jn.pval2.const

MergedAbstractified ==
  /\ jn.op = "merge"
  /\ jn.pval = abstractify(jn.val)

\* C15: merge_pvals(x, abstractify(x)) is x, for every concrete value x.
C15_MergeAbstractify == MergedAbstractified => jn.out = jn.val

C15_Witness ==
  /\ MergedAbstractified
  /\ jn.val = JaxTuple(<<Array(<<>>, 1), Array(<<>>, 2)>>)
  /\ jn.out = jn.val

\* C16 as stated: abstractify(x) is fully known: its descriptor is None and
\* its value is x.
C16_AbstractifyKnown ==
  jn.op = "abstractify" => jn.out = PartialVal(None, jn.x)

\* C16 amended: abstractify(x) is the Unknown partial value of the concrete
\* abstract value of x: its descriptor is concrete_aval(x), an abstract
\* value that holds the constant, and its value is unit.
C16_AbstractifyConcrete ==
  jn.op = "abstractify" =>
    /\ IsAbstractValue(jn.out.pv)
    /\ jn.out.pv = get_aval(tracers, jn.x)
    /\ jn.out.const = unit

C16_Witness ==
  /\ jn.op = "abstractify"
  /\ jn.x = Array(<<>>, 1)
  /\ jn.out = PartialVal(ConcreteArray(<<>>, "f32", 1), unit)

(***************************************************************************)
(* as_abstract_val.                                                        *)
(***************************************************************************)
RECURSIVE HasNone(_)
\* the descriptor is fully known or has a fully-known component at some depth
HasNone(pv) ==
  \/ pv = None
  \/ pv.k = "jtt" /\ \E i \in DOMAIN pv.elts : HasNone(pv.elts[i])

RECURSIVE AbstractOf(_)
\* the abstract type of a descriptor without a fully-known component: the
\* descriptor itself, or the abstract tuple of the components' types
AbstractOf(pv) ==
  IF pv.k = "jtt" THEN AbstractTuple([i \in DOMAIN pv.elts |-> AbstractOf(pv.elts[i])])
  ELSE pv

\* C17: as_abstract_val raises a TypeError on a descriptor that is fully
\* known or has a fully-known component at any depth, and otherwise returns
\* the abstract type; it returns nothing else.
C17_AsAbstractVal ==
  jn.op = "as_abstract_val" =>
    IF HasNone(jn.pv) THEN IsError(jn.out)
    ELSE IsAbstractValue(jn.out) /\ jn.out = AbstractOf(jn.pv)

\* a fully-known component two tuples deep
C17_Witness ==
  /\ jn.op = "as_abstract_val"
  /\ jn.pv = JaxprTracerTuple(<<JaxprTracerTuple(<<ShapedArray(<<>>, "f32"), None>>)>>)
  /\ IsError(jn.out)

(***************************************************************************)
(* Descriptor and value of the partial values that are built.              *)
(***************************************************************************)
\* the partial values built: those of the tracers, and the join
BuiltPvals ==
  {tracers[i].pval : i \in 1..Len(tracers)}
    \cup (IF jn.op = "join" /\ ~IsError(jn.out) THEN {jn.out} ELSE {})

\* an actual value: an array, a tuple of values, or a tracer
IsValue(const) == const.k \in {"c", "tup", "tr", "ftr"}

\* an abstract descriptor is paired with unit, a fully-known descriptor with
\* an actual value that is not the unit placeholder
TagValue(pval) ==
  /\ IsAbstractValue(pval.pv) => pval.const = unit
  /\ pval.pv = None => IsValue(pval.const) /\ pval.const # unit

RECURSIVE IsPlaceholder(_)
\* unit, or a tuple of placeholders
IsPlaceholder(const) ==
  /\ const.k \in {"tup", "ptup"}
  /\ \A i \in DOMAIN const.elts : IsPlaceholder(const.elts[i])

\* an abstract descriptor is paired with a placeholder, which is unit unless
\* the descriptor is an abstract tuple; a fully-known descriptor with an
\* actual value
TagPlaceholder(pval) ==
  /\ IsAbstractValue(pval.pv) =>
       /\ IsPlaceholder(pval.const)
       /\ pval.pv.k # "atup" => pval.const = unit
  /\ pval.pv = None => IsValue(pval.const)

MaxEqns == 2
MaxGensym == 1

\* the value bound to a Variable (Error: none is)
read(env, v) ==
  IF v = unitvar THEN unit
  ELSE IF \E i \in DOMAIN env : env[i].var = v
       THEN env[CHOOSE i \in DOMAIN env : env[i].var = v].val
       ELSE Error

RECURSIVE write(_, _, _)
\* map(write, vars_, vals), a safe_map: Error on lists of different lengths
write(env, vars_, vals) ==
  IF vars_ = <<>> THEN env
  ELSE write(Append(env, [var |-> Head(vars_),
                          val |-> IF vals = <<>> THEN Error ELSE Head(vals)]),
             Tail(vars_), IF vals = <<>> THEN <<>> ELSE Tail(vals))

\* what a primitive computes on arrays
impl(prim, args) ==
  IF \E i \in DOMAIN args : args[i].k # "c" THEN Error
  ELSE IF prim = "neg" THEN Array(args[1].shape, 0 - args[1].v)
  ELSE Array(args[1].shape, args[1].v + args[2].v)

\* primitive.bind(*in_vals): pack binds through core.pack, identity returns
\* its argument, another primitive is computed when no argument is a tracer
\* and is processed by the highest trace of its arguments otherwise
bind_prim(h, prim, args) ==
  IF \E i \in DOMAIN args : IsError(args[i]) THEN R(h, Error)
  ELSE IF prim = "pack" THEN core_pack(h, 0, args)
  ELSE IF prim = "identity" THEN R(h, args[1])
  ELSE IF top_level(h, args) = -1 THEN R(h, impl(prim, args))
  ELSE With(bind(h, Trace(top_level(h, args), 0), prim, args),
         LAMBDA b : R(b.h, full_lower(b.h, TracerRef(b.last.out))))

\* list(ans) of a destructuring equation
outvals(h, ans) ==
  IF ans.k = "tup" THEN R(h, ans.elts)
  ELSE IF ans.k = "tr" /\ can_unpack(h, ans.id) THEN unpack(h, ans.id)
  ELSE IF ans.k = "tr" /\ ispure(h, ans.id) /\ h[ans.id].pval.const.k = "tup"
       THEN R(h, h[ans.id].pval.const.elts)
  ELSE R(h, <<>>)

eval_eqn(h, env, eqn) ==
  With(bind_prim(h, eqn.primitive, [i \in DOMAIN eqn.invars |-> read(env, eqn.invars[i])]),
    LAMBDA ans :
      IF eqn.destructure
      THEN With(outvals(ans.h, ans.r),
             LAMBDA o : [h |-> o.h, env |-> write(env, eqn.outvars, o.r)])
      ELSE [h |-> ans.h, env |-> write(env, eqn.outvars, <<ans.r>>)])

RECURSIVE eval_eqns(_, _, _)
\* the equations in order, each one evaluated before the next
eval_eqns(h, env, eqns) ==
  IF eqns = <<>> THEN [h |-> h, env |-> env]
  ELSE With(eval_eqn(h, env, Head(eqns)),
            LAMBDA e : IF Len(e.h) >= 0 THEN eval_eqns(e.h, e.env, Tail(eqns))
                       ELSE e)

\* core.eval_jaxpr(jaxpr, consts, (), *args)
eval_jaxpr(h, jaxpr, consts, args) ==
  With(eval_eqns(h, write(write(<<>>, jaxpr.constvars, consts), jaxpr.invars, args),
                 jaxpr.eqns),
       LAMBDA e : R(e.h, IF Len(consts) = Len(jaxpr.constvars)
                            /\ Len(args) = Len(jaxpr.invars)
                         THEN read(e.env, jaxpr.outvar) ELSE Error))

(***************************************************************************)
(* partial_eval_jaxpr and partial_eval_jaxpr2, on first_components that    *)
(* are booleans.                                                           *)
(***************************************************************************)
\* every input taken as unknown
as_pval_mut(aval_, is_known, val) == PartialVal(aval_, unit)

as_pval(aval_, is_known, val) ==
  IF is_known THEN PartialVal(None, val) ELSE PartialVal(aval_, unit)

as_pval2(aval_, is_known) ==
  IF is_known THEN PartialVal(aval_, unit) ELSE PartialVal(AbstractTuple(<<>>), unit)

RECURSIVE isnone(_)
\* isnone without its first case
isnone_mut(x) ==
  IF x.k = "jtt" THEN [i \in DOMAIN x.elts |-> isnone(x.elts[i])]
  ELSE FALSE

isnone(x) ==
  IF x = None THEN TRUE
  ELSE IF x.k = "jtt" THEN [i \in DOMAIN x.elts |-> isnone(x.elts[i])]
  ELSE FALSE

_unpack_eqn(invar, outvars_) ==
  JaxprEqn(<<invar>>, outvars_, "identity", <<>>, FALSE, TRUE, {})

\* the conversion with the unpacking of the constants put after the equations
_closure_convert_jaxpr_mut(jaxpr, n) ==
  [jaxpr EXCEPT !.constvars = <<>>,
                !.invars = <<Var(n, "_peval")>> \o jaxpr.invars,
                !.eqns = jaxpr.eqns \o <<_unpack_eqn(Var(n, "_peval"), jaxpr.constvars)>>]

\* the conversion written into the Jaxpr it is given
_closure_convert_obj_mut(st, a, n) ==
  With([st EXCEPT ![a].constvars = <<>>],
    LAMBDA s1 : With([s1 EXCEPT ![a].invars = <<Var(n, "_peval")>> \o s1[a].invars],
      LAMBDA s2 :
        [st |-> [s2 EXCEPT ![a].eqns =
                   <<_unpack_eqn(Var(n, "_peval"), s2[a].constvars)>> \o s2[a].eqns],
         r |-> a]))

\* _closure_convert_jaxpr (598-605) on the object a of the store st, one
\* assignment after the other; newvar() returns Var(n, '_peval')
_closure_convert_obj(st, a, n) ==
  With(copy(st, a),
    LAMBDA c : With([c.st EXCEPT ![c.r].constvars = <<>>],
      LAMBDA s1 : With([s1 EXCEPT ![c.r].invars = <<Var(n, "_peval")>> \o s1[a].invars],
        LAMBDA s2 :
          [st |-> [s2 EXCEPT ![c.r].eqns =
                     <<_unpack_eqn(Var(n, "_peval"), s2[a].constvars)>> \o s2[a].eqns],
           r |-> c.r])))

\* _closure_convert_jaxpr(jaxpr, newvar): the Jaxpr it returns
_closure_convert_jaxpr(jaxpr, n) ==
  With(_closure_convert_obj(<<jaxpr>>, 1, n), LAMBDA c : c.st[c.r])

\* the pair unpacked as (res, a)
_move_and_pair_arg_mut(jaxpr, n) ==
  [jaxpr EXCEPT !.invars = <<jaxpr.invars[2], jaxpr.invars[3], Var(n, "_peval")>>,
                !.eqns = <<_unpack_eqn(Var(n, "_peval"),
                                       <<jaxpr.invars[1], jaxpr.invars[4]>>)>> \o jaxpr.eqns]

\* _move_and_pair_arg (665-672) on the object a of the store st; res, d, c,
\* a = jaxpr.invars is read before the assignments
_move_and_pair_obj(st, a, n) ==
  With(copy(st, a),
    LAMBDA c : With(c.st[a].invars,
      LAMBDA iv : With([c.st EXCEPT ![c.r].invars = <<iv[2], iv[3], Var(n, "_peval")>>],
        LAMBDA s1 :
          [st |-> [s1 EXCEPT ![c.r].eqns =
                     <<_unpack_eqn(Var(n, "_peval"), <<iv[4], iv[1]>>)>> \o s1[a].eqns],
           r |-> c.r])))

\* _move_and_pair_arg(jaxpr, newvar): the Jaxpr it returns
_move_and_pair_arg(jaxpr, n) ==
  With(_move_and_pair_obj(<<jaxpr>>, 1, n), LAMBDA c : c.st[c.r])

\* The Jaxprs that are split: ninvars inputs, the constvars cvars, up to m
\* equations neg and add on the Variables bound so far, then possibly a pack
\* of two of them.
GVar(i) == Var(i, "")

GEqn(prim, ins, next) == JaxprEqn(ins, <<GVar(next)>>, prim, <<>>, FALSE, FALSE, {})

EqnsOver(avail, next) ==
  {GEqn("neg", <<a>>, next) : a \in avail}
    \cup {GEqn("add", <<a, b>>, next) : a, b \in avail}

RECURSIVE GEqns(_, _, _)
\* the sequences of up to m equations, each with the Variables bound after it
GEqns(avail, next, m) ==
  {[eqns |-> <<>>, avail |-> avail, next |-> next]} \cup
  (IF m = 0 THEN {}
   ELSE UNION {{[eqns |-> <<e>> \o rest.eqns, avail |-> rest.avail, next |-> rest.next] :
                  rest \in GEqns(avail \cup {GVar(next)}, next + 1, m - 1)} :
               e \in EqnsOver(avail, next)})

GInvars(n) == [i \in 1..n |-> GVar(i - 1)]

\* without a final pack
GPlain(n, cvars) ==
  {Jaxpr(cvars, <<>>, GInvars(n), o, g.eqns) :
     g \in GEqns(Range(GInvars(n)) \cup Range(cvars), n + Len(cvars), MaxEqns),
     o \in Range(GInvars(n)) \cup Range(cvars) \cup {GVar(j) : j \in 0..(n + Len(cvars) + MaxEqns - 1)}}

GWellFormed(j) ==
  j.outvar \in Range(j.invars) \cup Range(j.constvars)
                 \cup UNION {Range(j.eqns[i].outvars) : i \in DOMAIN j.eqns}

\* with a final pack
GPacked(n, cvars) ==
  UNION {{Jaxpr(cvars, <<>>, GInvars(n), GVar(g.next),
                g.eqns \o <<GEqn("pack", <<a, b>>, g.next)>>) : a, b \in g.avail} :
         g \in GEqns(Range(GInvars(n)) \cup Range(cvars), n + Len(cvars), MaxEqns - 1)}

Graphs(mode) ==
  IF mode = 1
  THEN UNION {{j \in GPlain(2, cvars) : GWellFormed(j)} \cup GPacked(2, cvars) :
              cvars \in {<<>>, <<GVar(2)>>}}
  ELSE UNION {GPacked(3, cvars) : cvars \in {<<>>, <<GVar(3)>>}}

InitPE ==
  /\ tracers = <<>>
  /\ frames = <<>>
  /\ status = "run"
  /\ steps = 0
  /\ last = [op |-> "init"]
  /\ ext = NoExt
  /\ jn = [op |-> "off"]
  /\ hcb = [pc |-> "off"]
  /\ cc = [pc |-> "off"]
  /\ \E mode \in {1, 2} : \E G \in Graphs(mode) :
       \E fc \in [DOMAIN G.invars -> BOOLEAN] : \E n \in 0..MaxGensym :
         \E lower \in (IF mode = 1 THEN {TRUE} ELSE BOOLEAN) :
           pe = [pc |-> "start", mode |-> mode, jaxpr |-> G,
                 consts |-> [i \in DOMAIN G.constvars |-> Array(<<>>, 5)],
                 avals |-> [i \in DOMAIN G.invars |-> ShapedArray(<<>>, "f32")],
                 first_components |-> fc,
                 vals |-> [i \in DOMAIN G.invars |-> Array(<<>>, i)],
                 gensym |-> n, lower |-> lower]

\* partial_eval_jaxpr 587-589 and 581-582 (partial_eval_jaxpr2 628-630 and
\* 622-623): the outer trace starts on as_pval2, calls fun on its tracers,
\* and the inner trace starts on as_pval of them
pe_begin(h, p) ==
  With(new_args(h, Trace(1, 0),
                [i \in DOMAIN p.avals |-> as_pval2(p.avals[i], p.first_components[i])], <<>>),
    LAMBDA outer :
      With(new_args(outer.h, Trace(2, 0),
                    [i \in DOMAIN p.avals |->
                       as_pval(p.avals[i], p.first_components[i], TracerRef(outer.r[i]))],
                    <<>>),
        LAMBDA inner : [h |-> inner.h, outer_in |-> outer.r, inner_in |-> inner.r]))

PEBegin ==
  /\ pe.pc = "start"
  /\ \E b \in {pe_begin(tracers, pe)} :
       /\ tracers' = b.h
       /\ pe' = [pc |-> "traced", mode |-> pe.mode, jaxpr |-> pe.jaxpr,
                 consts |-> pe.consts, avals |-> pe.avals,
                 first_components |-> pe.first_components, vals |-> pe.vals,
                 gensym |-> pe.gensym, lower |-> pe.lower,
                 outer_in |-> b.outer_in, inner_in |-> b.inner_in]
  /\ UNCHANGED <<frames, status, steps, last, ext, jn, hcb, cc>>

\* what fun returns: pack((out_const, pack(consts_2))) of partial_eval_jaxpr,
\* pack((out_const_c, pack((out_const_b, pack(consts_2))))) of
\* partial_eval_jaxpr2, whose unpacking of out_pval raises on a fully-known
\* output
fun_raises(mode, out_pval) ==
  /\ mode = 2
  /\ \/ out_pval.pv.k \notin {"jtt", "atup"}
     \/ Len(out_pval.pv.elts) # 2
     \/ out_pval.const.k # "tup"
     \/ Len(out_pval.const.elts) # 2

fun_return(h, mode, out_pval, consts_2) ==
  With(core_pack(h, 0, consts_2),
    LAMBDA res :
      IF mode = 1 THEN core_pack(res.h, 0, <<out_pval.const, res.r>>)
      ELSE With(core_pack(res.h, 0, <<out_pval.const.elts[2], res.r>>),
             LAMBDA b : core_pack(b.h, 0, <<out_pval.const.elts[1], b.r>>)))

\* the body of fun: the Jaxpr is evaluated on the inner tracers (jaxpr_as_fun
\* lowers them first), the inner trace is extracted, and the known output
\* and the constants are packed
pe_trace(h, p) ==
  With(eval_jaxpr(h, p.jaxpr, p.consts,
                  [i \in DOMAIN p.inner_in |->
                     IF p.lower THEN full_lower(h, TracerRef(p.inner_in[i]))
                     ELSE TracerRef(p.inner_in[i])]),
    LAMBDA ev : With(finish(ev.h, Trace(2, 0), p.inner_in, ev.r, FALSE),
      LAMBDA f :
        IF f.ext.err \/ f.ext.env # <<>> \/ fun_raises(p.mode, f.h[f.out].pval)
        THEN [h |-> f.h, err |-> TRUE]
        ELSE With(fun_return(f.h, p.mode, f.h[f.out].pval, f.ext.consts),
               LAMBDA ret : [h |-> ret.h, err |-> FALSE, jaxpr_2 |-> f.ext.jaxpr,
                             out_pv |-> f.h[f.out].pval.pv,
                             consts_2 |-> f.ext.consts, ret |-> ret.r])))

PETrace ==
  /\ pe.pc = "traced"
  /\ \E t \in {pe_trace(tracers, pe)} :
       /\ tracers' = t.h
       /\ pe' = IF t.err THEN [pc |-> "error", mode |-> pe.mode, jaxpr |-> pe.jaxpr,
                               first_components |-> pe.first_components]
                ELSE [pc |-> "returned", mode |-> pe.mode, jaxpr |-> pe.jaxpr,
                      consts |-> pe.consts, avals |-> pe.avals,
                      first_components |-> pe.first_components, vals |-> pe.vals,
                      gensym |-> pe.gensym, lower |-> pe.lower,
                      outer_in |-> pe.outer_in, inner_in |-> pe.inner_in,
                      jaxpr_2 |-> t.jaxpr_2, out_pv_2 |-> t.out_pv,
                      consts_2 |-> t.consts_2, ret |-> t.ret]
  /\ UNCHANGED <<frames, status, steps, last, ext, jn, hcb, cc>>

\* the second Jaxpr: lifted_jaxpr_2 of partial_eval_jaxpr,
\* doubly_lifted_jaxpr_2 of partial_eval_jaxpr2
second_jaxpr(mode, jaxpr_2, n) ==
  IF mode = 1 THEN _closure_convert_jaxpr(jaxpr_2, n)
  ELSE _move_and_pair_arg(_closure_convert_jaxpr(jaxpr_2, n), n + 1)

\* the Jaxpr objects after the second Jaxpr is made: jaxpr_2 is object 1
second_store(mode, jaxpr_2, n) ==
  With(_closure_convert_obj(<<jaxpr_2>>, 1, n),
    LAMBDA l : IF mode = 1 THEN l.st ELSE _move_and_pair_obj(l.st, l.r, n + 1).st)

\* the outer trace returns (instantiate=True) and the second Jaxpr is made
PEEnd ==
  /\ pe.pc = "returned"
  /\ \E f \in {finish(tracers, Trace(1, 0), pe.outer_in, pe.ret, TRUE)} :
       /\ tracers' = f.h
       /\ pe' = IF f.ext.err \/ f.ext.env # <<>>
                THEN [pc |-> "error", mode |-> pe.mode, jaxpr |-> pe.jaxpr,
                      first_components |-> pe.first_components]
                ELSE [pc |-> "done", mode |-> pe.mode, jaxpr |-> pe.jaxpr,
                      consts |-> pe.consts, first_components |-> pe.first_components,
                      vals |-> pe.vals,
                      gensym |-> pe.gensym + (IF pe.mode = 1 THEN 1 ELSE 2),
                      jaxpr_1 |-> f.ext.jaxpr, consts_1 |-> f.ext.consts,
                      out_pval |-> f.h[f.out].pval,
                      jaxpr_2 |-> pe.jaxpr_2, consts_2 |-> pe.consts_2,
                      lifted_jaxpr_2 |-> _closure_convert_jaxpr(pe.jaxpr_2, pe.gensym),
                      second |-> second_jaxpr(pe.mode, pe.jaxpr_2, pe.gensym),
                      store |-> second_store(pe.mode, pe.jaxpr_2, pe.gensym),
                      out_pv_2 |-> pe.out_pv_2, fc_out |-> isnone(pe.out_pv_2)]
  /\ UNCHANGED <<frames, status, steps, last, ext, jn, hcb, cc>>

NextPE == PEBegin \/ PETrace \/ PEEnd

SpecPE == InitPE /\ [][NextPE]_vars

(***************************************************************************)
(* The two Jaxprs of a split.                                              *)
(***************************************************************************)
SplitDone == pe.pc = "done"

\* the value of a known input, unit in the place of an unknown one
KnownArgs == [i \in DOMAIN pe.vals |-> IF pe.first_components[i] THEN pe.vals[i] ELSE unit]

\* the value of an unknown input, unit in the place of a known one
UnknownArgs == [i \in DOMAIN pe.vals |-> IF pe.first_components[i] THEN unit ELSE pe.vals[i]]

\* jaxpr_1 on the known inputs: the pair (known output, residual)
Out1 == eval_jaxpr(<<>>, pe.jaxpr_1, pe.consts_1, KnownArgs).r

\* lifted_jaxpr_2 on the residual and the unknown inputs
Out2 ==
  IF Out1.k = "tup" /\ Len(Out1.elts) = 2
  THEN eval_jaxpr(<<>>, pe.lifted_jaxpr_2, <<>>, <<Out1.elts[2]>> \o UnknownArgs).r
  ELSE Error

\* the known part of the output of jaxpr_1 merged with the output of
\* lifted_jaxpr_2
Merged ==
  IF IsError(Out2) THEN Error
  ELSE merge_pvals(Out2, PartialVal(pe.out_pv_2, Out1.elts[1]))

\* the Jaxpr itself on all its inputs
Direct == eval_jaxpr(<<>>, pe.jaxpr, pe.consts, pe.vals).r

\* C2: for a Jaxpr and a partition of its inputs into known and unknown,
\* evaluating jaxpr_1 on the known inputs, then lifted_jaxpr_2 on the residual
\* output of jaxpr_1 followed by the unknown inputs, and merging the known
\* output of jaxpr_1 with the output of lifted_jaxpr_2, gives what the Jaxpr
\* gives on all its inputs.
C2_SplitComposes ==
  (SplitDone /\ pe.mode = 1) => (~IsError(Direct) /\ Merged = Direct)

C2_Witness ==
  /\ SplitDone /\ pe.mode = 1
  /\ pe.first_components = <<TRUE, FALSE>>
  /\ pe.consts_2 # <<>>
  /\ \E i \in DOMAIN pe.jaxpr_1.eqns : pe.jaxpr_1.eqns[i].primitive \in Prims
  /\ \E i \in DOMAIN pe.jaxpr_2.eqns : pe.jaxpr_2.eqns[i].primitive \in Prims
  /\ Merged = Direct
  /\ Merged.k = "c"

\* the Variables of a Jaxpr
VarsOf(jaxpr) ==
  Range(jaxpr.constvars) \cup Range(jaxpr.invars) \cup {jaxpr.outvar}
    \cup UNION {Range(jaxpr.eqns[i].invars) \cup Range(jaxpr.eqns[i].outvars) :
                  i \in DOMAIN jaxpr.eqns}

\* an identity equation that destructures invar into outvars_
IsUnpackEqn(eqn, invar, outvars_) ==
  /\ eqn.primitive = "identity"
  /\ eqn.destructure
  /\ ~eqn.restructure
  /\ eqn.invars = <<invar>>
  /\ eqn.outvars = outvars_
  /\ eqn.bound_subjaxprs = <<>>

\* C7: _closure_convert_jaxpr returns a Jaxpr without constvars, whose invars
\* are one new Variable followed by the invars of the Jaxpr it was given, and
\* whose equations are one identity equation that destructures the new
\* Variable into the former constvars, in order, followed by the former
\* equations in order, also when there is no constvar; so every former
\* constant is bound before its first use.
C7_ClosureConvert ==
  SplitDone =>
    /\ pe.lifted_jaxpr_2.constvars = <<>>
    /\ pe.lifted_jaxpr_2.invars # <<>>
    /\ pe.lifted_jaxpr_2.invars[1] \notin VarsOf(pe.jaxpr_2)
    /\ Tail(pe.lifted_jaxpr_2.invars) = pe.jaxpr_2.invars
    /\ pe.lifted_jaxpr_2.eqns # <<>>
    /\ IsUnpackEqn(pe.lifted_jaxpr_2.eqns[1], pe.lifted_jaxpr_2.invars[1],
                   pe.jaxpr_2.constvars)
    /\ Tail(pe.lifted_jaxpr_2.eqns) = pe.jaxpr_2.eqns
    /\ pe.lifted_jaxpr_2.outvar = pe.jaxpr_2.outvar
    /\ NoForwardReferences(pe.lifted_jaxpr_2)

C7_Witness ==
  /\ SplitDone
  /\ Len(pe.jaxpr_2.constvars) = 2
  /\ \E i \in DOMAIN pe.jaxpr_2.eqns :
       Range(pe.jaxpr_2.eqns[i].invars) \cap Range(pe.jaxpr_2.constvars) # {}
  /\ Len(pe.lifted_jaxpr_2.eqns) = Len(pe.jaxpr_2.eqns) + 1

AllKnown ==
  /\ SplitDone /\ pe.mode = 1
  /\ \A i \in DOMAIN pe.first_components : pe.first_components[i]

\* C22: when every input is marked known, partial_eval_jaxpr leaves the
\* whole computation to jaxpr_1: out_pv_2 is fully known, fc_out is True,
\* jaxpr_1 computes the output of the Jaxpr, and the second Jaxpr has no
\* equation but the destructuring one of the closure conversion.
C22_AllKnown ==
  AllKnown =>
    /\ pe.out_pv_2 = None
    /\ pe.fc_out = TRUE
    /\ Out1.k = "tup" /\ Len(Out1.elts) = 2 /\ Out1.elts[1] = Direct
    /\ pe.jaxpr_2.eqns = <<>>
    /\ Len(pe.lifted_jaxpr_2.eqns) = 1
    /\ IsUnpackEqn(pe.lifted_jaxpr_2.eqns[1], pe.lifted_jaxpr_2.invars[1], <<>>)

\* a Jaxpr of two equations on two known inputs
C22_Witness ==
  /\ AllKnown
  /\ Len(pe.jaxpr.eqns) = 2
  /\ Len(pe.jaxpr_1.eqns) >= 2
  /\ pe.fc_out = TRUE
  /\ Len(pe.lifted_jaxpr_2.eqns) = 1

(***************************************************************************)
(* A Jaxpr is not modified after it is built.                              *)
(***************************************************************************)
\* calls and maps, and the splitting of Jaxprs
InitRewrite == InitCall \/ InitPE

NextRewrite == NextCall \/ NextPE

SpecRewrite == InitRewrite /\ [][NextRewrite]_vars

\* process_map left the callee's Jaxpr as it was extracted and bound a new
\* object in the equation
MapLeavesJaxpr ==
  last.op = "map" =>
    /\ last.store[1] = ext.jaxpr
    /\ Len(last.store) = 2
    /\ BoundSub.jaxpr = last.store[2]

\* _closure_convert_jaxpr left jaxpr_2 as it was extracted, and
\* _move_and_pair_arg left the Jaxpr _closure_convert_jaxpr returned
SplitLeavesJaxprs ==
  pe.pc = "done" =>
    /\ pe.store[1] = pe.jaxpr_2
    /\ Len(pe.store) = pe.mode + 1
    /\ pe.store[2] = pe.lifted_jaxpr_2
    /\ pe.store[Len(pe.store)] = pe.second

\* C26: a Jaxpr is not modified after it is built: _closure_convert_jaxpr,
\* _move_and_pair_arg and process_map leave the Jaxpr they are given as it
\* was and write only to the copy they made of it.
C26_NotModified == MapLeavesJaxpr /\ SplitLeavesJaxprs

\* the second Jaxpr of partial_eval_jaxpr2 was made from a jaxpr_2 that has
\* constvars and equations
C26_Witness ==
  /\ pe.pc = "done"
  /\ pe.mode = 2
  /\ pe.jaxpr_2.constvars # <<>>
  /\ pe.jaxpr_2.eqns # <<>>
  /\ pe.second # pe.lifted_jaxpr_2
  /\ pe.lifted_jaxpr_2 # pe.jaxpr_2

\* a map returned whose callee's Jaxpr has a constvar
C26_MapWitness ==
  /\ last.op = "map"
  /\ ext.jaxpr.constvars # <<>>
  /\ BoundSub.jaxpr # ext.jaxpr

(***************************************************************************)
(* host_callback.outfeed_receiver: one receiver loop per device, run by a  *)
(* thread pool, reads the outfeed of its device and calls the tap          *)
(* functions; the main thread runs the body of the with statement, whose   *)
(* computations emit outfeeds, and then the finally clause.                *)
(***************************************************************************)
NumDevices == 2
MaxOutfeeds == 2

Devices == 1..NumDevices

_end_consumer == 0
_unknown_consumer == 1

\* _consumer_registry_by_id: a tap function that returns and one that raises
OkTap == 2
RaisingTap == 3
_consumer_registry_by_id == {OkTap, RaisingTap}

\* what is read from the outfeed: the consumer id of the header and the
\* number of arrays that follow it
Outfeed(consumer_id, arrays) == [consumer_id |-> consumer_id, arrays |-> arrays]

\* what id_tap(_end_consumer, result=x) emits: no array is tapped
EndOutfeed == Outfeed(_end_consumer, 0)

InitOutfeed ==
  /\ tracers = <<>>
  /\ frames = <<>>
  /\ status = "run"
  /\ steps = 0
  /\ last = [op |-> "init"]
  /\ ext = NoExt
  /\ pe = [pc |-> "off"]
  /\ jn = [op |-> "off"]
  /\ cc = [pc |-> "off"]
  /\ hcb = [pc |-> "body",
            outfeed |-> [d \in Devices |-> <<>>],
            loop |-> [d \in Devices |-> [pc |-> "receive", read |-> 0]],
            count_tap_exceptions |-> 0,
            next |-> 1,
            emitted |-> [d \in Devices |-> <<>>],
            received |-> [d \in Devices |-> <<>>],
            called |-> [d \in Devices |-> <<>>],
            failures |-> 0,
            failures_at_exit |-> 0]

\* a computation of the body reaches an id_tap on device d: the header and
\* the arrays enter the outfeed of the device
Emit ==
  /\ hcb.pc = "body"
  /\ \E d \in Devices :
       /\ Len(hcb.emitted[d]) < MaxOutfeeds
       /\ \E c \in {_unknown_consumer} \cup _consumer_registry_by_id :
            hcb' = [hcb EXCEPT !.outfeed[d] = Append(@, Outfeed(c, 1)),
                               !.emitted[d] = Append(@, Outfeed(c, 1))]
  /\ UNCHANGED <<tracers, frames, status, steps, last, ext, pe, jn, cc>>

\* the body ends (it returns or raises): the finally clause starts
LeaveBody ==
  /\ hcb.pc = "body"
  /\ hcb' = [hcb EXCEPT !.pc = "finally"]
  /\ UNCHANGED <<tracers, frames, status, steps, last, ext, pe, jn, cc>>

\* 523-524: the end of the stream is signalled to the next device
SendEnd ==
  /\ hcb.pc = "finally"
  /\ hcb' = [hcb EXCEPT !.outfeed[hcb.next] = Append(@, EndOutfeed),
                        !.next = @ + 1,
                        !.pc = IF hcb.next = NumDevices THEN "wait" ELSE "finally"]
  /\ UNCHANGED <<tracers, frames, status, steps, last, ext, pe, jn, cc>>

\* the loop that stops on an outfeed for no registered consumer as well
is_end_mut(o) == o.consumer_id \notin _consumer_registry_by_id

\* 499: consumer_id == _end_consumer
is_end(o) == o.consumer_id = _end_consumer

\* the tap function of the consumer raises an Exception
tap_raises(o) == o.consumer_id = RaisingTap

\* one iteration of device_receiver_loop (493-514) up to the update of the
\* counter: the loop state after the outfeed o was received
after_receive(o) ==
  IF is_end(o) THEN IF o.arrays = 0 THEN "done" ELSE "assert"
  ELSE IF o.consumer_id \notin _consumer_registry_by_id THEN "load"
  ELSE IF tap_raises(o) THEN "load"
  ELSE "receive"

ReceiveAt(d) ==
  /\ hcb.loop[d].pc = "receive"
  /\ hcb.outfeed[d] # <<>>
  /\ \E o \in {Head(hcb.outfeed[d])} :
       hcb' = [hcb EXCEPT
                 !.outfeed[d] = Tail(@),
                 !.received[d] = Append(@, o),
                 !.called[d] = IF ~is_end(o) /\ o.consumer_id \in _consumer_registry_by_id
                               THEN Append(@, o) ELSE @,
                 !.loop[d].pc = after_receive(o),
                 !.failures = IF after_receive(o) = "load" THEN @ + 1 ELSE @]
  /\ UNCHANGED <<tracers, frames, status, steps, last, ext, pe, jn, cc>>

Receive == \E d \in Devices : ReceiveAt(d)

\* count_tap_exceptions += 1 (506, 512) is a read of the shared variable
\* and a later write of the value read plus one; no lock is held
LoadCountAt(d) ==
  /\ hcb.loop[d].pc = "load"
  /\ hcb' = [hcb EXCEPT !.loop[d] = [pc |-> "store", read |-> hcb.count_tap_exceptions]]
  /\ UNCHANGED <<tracers, frames, status, steps, last, ext, pe, jn, cc>>

LoadCount == \E d \in Devices : LoadCountAt(d)

StoreCountAt(d) ==
  /\ hcb.loop[d].pc = "store"
  /\ hcb' = [hcb EXCEPT !.loop[d].pc = "receive",
                        !.count_tap_exceptions = hcb.loop[d].read + 1]
  /\ UNCHANGED <<tracers, frames, status, steps, last, ext, pe, jn, cc>>

StoreCount == \E d \in Devices : StoreCountAt(d)

\* the exit that raises only after two counted failures
raise_TapFunctionException_mut(count) == count > 1

\* 529-530: if count_tap_exceptions > 0: raise TapFunctionException
raise_TapFunctionException(count) == count > 0

\* 525-528: every future has completed within timeout_sec
Completed ==
  /\ hcb.pc = "wait"
  /\ \A d \in Devices : hcb.loop[d].pc = "done"
  /\ hcb' = [hcb EXCEPT !.pc = IF raise_TapFunctionException(hcb.count_tap_exceptions)
                               THEN "TapFunctionException" ELSE "returned",
                        !.failures_at_exit = hcb.failures]
  /\ UNCHANGED <<tracers, frames, status, steps, last, ext, pe, jn, cc>>

\* 525: timeout_sec pass before every future has completed, as_completed
\* raises TimeoutError; the loops go on
TimedOut ==
  /\ hcb.pc = "wait"
  /\ \E d \in Devices : hcb.loop[d].pc # "done"
  /\ hcb' = [hcb EXCEPT !.pc = "TimeoutError", !.failures_at_exit = hcb.failures]
  /\ UNCHANGED <<tracers, frames, status, steps, last, ext, pe, jn, cc>>

NextOutfeed ==
  Emit \/ LeaveBody \/ SendEnd \/ Receive \/ LoadCount \/ StoreCount
    \/ Completed \/ TimedOut

SpecOutfeed == InitOutfeed /\ [][NextOutfeed]_vars

\* the thread pool has one worker per device (max_workers=len(devices)), so
\* every loop that can take a step does, and the main thread goes through
\* the finally clause
SpecOutfeedFair ==
  /\ SpecOutfeed
  /\ WF_vars(SendEnd)
  /\ \A d \in Devices : WF_vars(ReceiveAt(d) \/ LoadCountAt(d) \/ StoreCountAt(d))

(***************************************************************************)
(* Properties of outfeed_receiver.                                         *)
(***************************************************************************)
\* the context was left: it returned or raised
Left == hcb.pc \in {"returned", "TapFunctionException", "TimeoutError"}

\* a receiver loop stops on nothing but the end of the stream: what a loop
\* that has returned received is outfeeds for consumers and then the end
StopsAtEndOnly ==
  \A d \in Devices :
    /\ hcb.loop[d].pc # "assert"
    /\ hcb.loop[d].pc = "done" <=>
         (hcb.received[d] # <<>> /\ is_end(hcb.received[d][Len(hcb.received[d])]))
    /\ \A i \in 1..(Len(hcb.received[d]) - 1) : ~is_end(hcb.received[d][i])

\* C27 as stated: a failure does not stop the loop, and leaving the context
\* raises TapFunctionException if a tap function raised or an outfeed had no
\* registered consumer, on any device, and raises nothing for tap failures
\* otherwise, whatever the interleaving of the updates of the counter.
C27_RaisesIffFailed ==
  /\ StopsAtEndOnly
  /\ Left => (hcb.pc = "TapFunctionException" <=> hcb.failures_at_exit > 0)

\* C27: a failure does not stop the loop, and when every loop has returned
\* within the timeout, leaving the context raises TapFunctionException if
\* and only if a failure happened on some device, whatever the interleaving
\* of the updates of the counter.
C27_RaisesIffFailedInTime ==
  /\ StopsAtEndOnly
  /\ hcb.pc \in {"returned", "TapFunctionException"} =>
       /\ hcb.pc = "TapFunctionException" <=> hcb.failures > 0
       /\ hcb.failures_at_exit = hcb.failures

\* two failures on two devices of which the counter has kept one
C27_Witness ==
  /\ hcb.pc = "TapFunctionException"
  /\ hcb.failures = 2
  /\ hcb.count_tap_exceptions = 1
  /\ \A d \in Devices : \E i \in DOMAIN hcb.received[d] :
       hcb.received[d][i].consumer_id \in {_unknown_consumer, RaisingTap}

\* the end marker has been sent to every device, once
EndSentToAll ==
  \A d \in Devices :
    Len(SelectSeq(hcb.received[d] \o hcb.outfeed[d], is_end)) = 1

\* the consumer of an outfeed is registered
Registered(o) == o.consumer_id \in _consumer_registry_by_id

\* when the context is left without a timeout: the end marker went to every
\* device, a loop returns on the end marker and on nothing else, every loop
\* has returned, and what was emitted on a device was received in order and
\* its registered consumers called
ExitAfterLoops ==
  /\ hcb.pc \in {"wait", "returned", "TapFunctionException", "TimeoutError"} => EndSentToAll
  /\ StopsAtEndOnly
  /\ hcb.pc \in {"returned", "TapFunctionException"} =>
       \A d \in Devices :
         /\ hcb.loop[d].pc = "done"
         /\ hcb.outfeed[d] = <<>>
         /\ hcb.received[d] = hcb.emitted[d] \o <<EndOutfeed>>
         /\ hcb.called[d] = SelectSeq(hcb.emitted[d], Registered)

AllLoopsReturned == \A d \in Devices : hcb.loop[d].pc = "done"

MaxMetaSeed == 2

_OUTFEED_HEADER_LENGTH == 32
_OUTFEED_HEADER_START == 2178
_OUTFEED_HEADER_METADATA_LENGTH == 4 * (_OUTFEED_HEADER_LENGTH - 4)

Half == 65536

uint32(hi, lo) == [hi |-> hi, lo |-> lo]

\* a Python int that is not negative and less than 2^64
PyInt(limbs) == [sign |-> 1, limbs |-> limbs]

\* the consumer ids an outfeed is emitted with
ConsumerIds ==
  {PyInt(<<a, b, c, d>>) : a \in {0, 1, 32767, 32768, 65535}, b, c, d \in {0, 65535}}

\* the lengths and the bytes of the metadata: msgpack.dumps of the arrays'
\* descriptors is any byte string
MetaLens == {0, 1, 3, 4, 5, 111, 112, 113}

Metadata(n, seed) == [i \in 1..n |-> (32 + seed * i) % 256]

\* (consumer_id >> 32) & 0xffffffff and consumer_id & 0xffffffff
high_word(consumer_id) == uint32(consumer_id.limbs[1], consumer_id.limbs[2])
low_word(consumer_id) == uint32(consumer_id.limbs[3], consumer_id.limbs[4])

\* metadata += b" " * (((metadata_len + 3) // 4) * 4 - metadata_len)
pad(metadata) ==
  metadata \o [i \in 1..(((Len(metadata) + 3) \div 4) * 4 - Len(metadata)) |-> 32]

\* int.from_bytes(metadata[i:i+4], byteorder="big"); the slice is empty
\* past the end of the padded metadata
from_bytes(metadata, i) ==
  IF i + 4 <= Len(metadata)
  THEN uint32(metadata[i + 1] * 256 + metadata[i + 2],
              metadata[i + 3] * 256 + metadata[i + 4])
  ELSE uint32(0, 0)

\* the header that carries the low word of the consumer id twice
header_of_mut(consumer_id, metadata) ==
  <<uint32(0, _OUTFEED_HEADER_START), low_word(consumer_id), low_word(consumer_id),
    uint32(0, Len(metadata))>>
    \o [k \in 1..(_OUTFEED_HEADER_METADATA_LENGTH \div 4) |->
          from_bytes(pad(metadata), 4 * (k - 1))]

\* the header of _emit_outfeed (383-387), without the padding to
\* _OUTFEED_HEADER_LENGTH words
header_of(consumer_id, metadata) ==
  <<uint32(0, _OUTFEED_HEADER_START), high_word(consumer_id), low_word(consumer_id),
    uint32(0, Len(metadata))>>
    \o [k \in 1..(_OUTFEED_HEADER_METADATA_LENGTH \div 4) |->
          from_bytes(pad(metadata), 4 * (k - 1))]

\* _emit_outfeed 377-388: ValueError on a metadata that is too long, else
\* the header padded with zeros to _OUTFEED_HEADER_LENGTH words
_emit_outfeed(consumer_id, metadata) ==
  IF Len(metadata) > _OUTFEED_HEADER_METADATA_LENGTH THEN [k |-> "ValueError"]
  ELSE With(header_of(consumer_id, metadata),
         LAMBDA header :
           [k |-> "header",
            header |-> header \o [i \in 1..(_OUTFEED_HEADER_LENGTH - Len(header)) |->
                                    uint32(0, 0)]])

\* the magnitude of the negative int64 whose bits are the limbs: 2^64 minus
\* the unsigned value (the limbs inverted, plus one)
RECURSIVE negate(_, _)
negate(limbs, carry) ==
  IF limbs = <<>> THEN <<>>
  ELSE With((Half - 1 - limbs[Len(limbs)]) + carry,
         LAMBDA x : negate(SubSeq(limbs, 1, Len(limbs) - 1), x \div Half)
                      \o <<x % Half>>)

\* the Python int of the int64 whose bits are the limbs
int64(limbs) ==
  IF limbs[1] >= Half \div 2 THEN [sign |-> -1, limbs |-> negate(limbs, 1)]
  ELSE PyInt(limbs)

\* (header[1] << 32) + header[2] on numpy.uint32 scalars: the shift by a
\* Python int is done in int64, whose overflow wraps, and the sum stays in
\* int64
decode_consumer_id(h1, h2) == int64(<<h1.hi, h1.lo, h2.hi, h2.lo>>)

\* int(header[i]).to_bytes(4, byteorder="big")
to_bytes(w) == <<w.hi \div 256, w.hi % 256, w.lo \div 256, w.lo % 256>>

RECURSIVE join_bytes(_)
join_bytes(ws) == IF ws = <<>> THEN <<>> ELSE to_bytes(Head(ws)) \o join_bytes(Tail(ws))

\* _receive_outfeed 423-432 on the header read: the consumer id and the
\* metadata
_receive_outfeed(header) ==
  IF header[1] # uint32(0, _OUTFEED_HEADER_START) THEN [k |-> "ValueError"]
  ELSE With(header[4].lo,
         LAMBDA metadata_length :
           [k |-> "received",
            consumer_id |-> decode_consumer_id(header[2], header[3]),
            metadata |-> SubSeq(join_bytes(SubSeq(header, 5, 4 + (metadata_length + 3) \div 4)),
                                1, metadata_length)])

InitHeader ==
  /\ tracers = <<>>
  /\ frames = <<>>
  /\ status = "run"
  /\ steps = 0
  /\ last = [op |-> "init"]
  /\ ext = NoExt
  /\ pe = [pc |-> "off"]
  /\ jn = [op |-> "off"]
  /\ cc = [pc |-> "off"]
  /\ \E consumer_id \in ConsumerIds : \E n \in MetaLens : \E seed \in 0..MaxMetaSeed :
       hcb = [pc |-> "emit", consumer_id |-> consumer_id, metadata |-> Metadata(n, seed)]

\* the compiled computation emits the header
EmitHeader ==
  /\ hcb.pc = "emit"
  /\ hcb' = [pc |-> "emitted", consumer_id |-> hcb.consumer_id, metadata |-> hcb.metadata,
             out |-> _emit_outfeed(hcb.consumer_id, hcb.metadata)]
  /\ UNCHANGED <<tracers, frames, status, steps, last, ext, pe, jn, cc>>

\* the receiver reads it
ReceiveHeader ==
  /\ hcb.pc = "emitted"
  /\ hcb.out.k = "header"
  /\ hcb' = [pc |-> "received", consumer_id |-> hcb.consumer_id, metadata |-> hcb.metadata,
             out |-> hcb.out, got |-> _receive_outfeed(hcb.out.header)]
  /\ UNCHANGED <<tracers, frames, status, steps, last, ext, pe, jn, cc>>

NextHeader == EmitHeader \/ ReceiveHeader

SpecHeader == InitHeader /\ [][NextHeader]_vars

\* the header is 32 words of 32 bits and starts with 2178
HeaderShape ==
  (hcb.pc \in {"emitted", "received"} /\ hcb.out.k = "header") =>
    /\ Len(hcb.out.header) = 32
    /\ hcb.out.header[1] = uint32(0, 2178)
    /\ \A i \in DOMAIN hcb.out.header :
         /\ hcb.out.header[i].hi \in 0..(Half - 1)
         /\ hcb.out.header[i].lo \in 0..(Half - 1)

\* a metadata of more than 112 bytes is refused, and no other
MetadataRefused ==
  hcb.pc = "emitted" => (hcb.out.k = "ValueError" <=> Len(hcb.metadata) > 112)

\* C29: the header round-trips: for every consumer id in 0 .. 2^64-1 and
\* every metadata of at most 112 bytes, the header _emit_outfeed builds has
\* 32 words, starts with 2178, and _receive_outfeed reads from it the same
\* consumer id and the same metadata.
C29_RoundTrip ==
  /\ HeaderShape
  /\ MetadataRefused
  /\ hcb.pc = "received" =>
       /\ hcb.got.k = "received"
       /\ hcb.got.metadata = hcb.metadata
       /\ hcb.got.consumer_id = hcb.consumer_id

\* the same for the consumer ids below 2^63, and what is read for the
\* others: the id minus 2^64
C29_RoundTripBelow2to63 ==
  /\ HeaderShape
  /\ MetadataRefused
  /\ hcb.pc = "received" =>
       /\ hcb.got.k = "received"
       /\ hcb.got.metadata = hcb.metadata
       /\ hcb.consumer_id.limbs[1] < Half \div 2 => hcb.got.consumer_id = hcb.consumer_id
       /\ hcb.consumer_id.limbs[1] >= Half \div 2 =>
            /\ hcb.got.consumer_id.sign = -1
            /\ hcb.got.consumer_id.limbs = negate(hcb.consumer_id.limbs, 1)

\* a consumer id whose two words are full below the sign bit and a metadata
\* of 111 bytes were read back
C29_Below2to63Witness ==
  /\ hcb.pc = "received"
  /\ hcb.consumer_id = PyInt(<<32767, 65535, 65535, 65535>>)
  /\ Len(hcb.metadata) = 111
  /\ hcb.metadata[3] # hcb.metadata[4]
  /\ hcb.got.consumer_id = hcb.consumer_id

(***************************************************************************)
(* compilation_cache.get_cache_key: the bytes fed to the sha256 object.    *)
(* The hash object is kept as the byte string it has been fed, and the key *)
(* as that byte string: two keys are equal when the same bytes were fed.   *)
(***************************************************************************)
MaxRequests == 2
MaxLayout == 2

\* the serialized HLO module: its bytes up to a function pointer in an
\* op_name, ' at 0x', the digits of the address, and '>'
as_serialized_hlo_module_proto(xla_computation) ==
  xla_computation.body \o <<32, 97, 116, 32, 48, 120>> \o xla_computation.addr \o <<62>>

\* 80: re.sub(b" at 0x[a-f0-9]+>", b" at 0x...>", serialized_hlo)
scrubbed_hlo(xla_computation) ==
  xla_computation.body \o <<32, 97, 116, 32, 48, 120>> \o <<46, 46, 46>> \o <<62>>

\* int_var.to_bytes(8, byteorder='big') of an int below 256
_hash_int(hash_obj, int_var) == hash_obj \o <<0, 0, 0, 0, 0, 0, 0, int_var>>

\* bool_var.to_bytes(1, byteorder='big')
_hash_bool(hash_obj, bool_var) == hash_obj \o <<IF bool_var THEN 1 ELSE 0>>

\* str_var.encode('utf-8').strip(), of a string without blanks
_hash_string(hash_obj, str_var) == hash_obj \o str_var

\* shape.to_serialized_proto() of a layout
to_serialized_proto(shape) == <<10, 1, shape>>

\* 100-102: map(lambda shape: hash_obj.update(shape.to_serialized_proto()),
\* argument_layouts) makes an iterator that nothing consumes, so the lambda
\* is not called and the hash object is fed nothing
hash_argument_layouts(hash_obj, argument_layouts) == hash_obj

_hash_debug_options(hash_obj, debug_obj) ==
  _hash_bool(_hash_bool(_hash_bool(_hash_int(_hash_bool(_hash_bool(_hash_bool(
    _hash_bool(_hash_bool(_hash_bool(hash_obj,
      debug_obj.xla_cpu_enable_fast_math),
      debug_obj.xla_cpu_fast_math_honor_infs),
      debug_obj.xla_cpu_fast_math_honor_nans),
      debug_obj.xla_cpu_fast_math_honor_division),
      debug_obj.xla_cpu_fast_math_honor_functions),
      debug_obj.xla_gpu_enable_fast_min_max),
      debug_obj.xla_backend_optimization_level),
      debug_obj.xla_cpu_enable_xprof_traceme),
      debug_obj.xla_llvm_disable_expensive_passes),
      debug_obj.xla_test_all_input_layouts)

\* jaxlib 0.1.72 and later: the last field is hashed as well
_hash_executable_build_options(hash_obj, executable_obj) ==
  With(_hash_debug_options(
         _hash_int(_hash_int(
           IF executable_obj.result_layout = None THEN hash_obj
           ELSE hash_obj \o to_serialized_proto(executable_obj.result_layout.shape),
           executable_obj.num_replicas), executable_obj.num_partitions),
         executable_obj.debug_options),
    LAMBDA h :
      _hash_bool(_hash_bool(
        IF executable_obj.device_assignment = None THEN h
        ELSE h \o executable_obj.device_assignment.bytes,
        executable_obj.use_spmd_partitioning),
        executable_obj.allow_spmd_sharding_propagation_to_output))

_hash_compile_options(hash_obj, compile_options_obj) ==
  With(_hash_int(_hash_int(_hash_bool(
         _hash_executable_build_options(
           _hash_int(
             IF compile_options_obj.argument_layouts # None
             THEN hash_argument_layouts(hash_obj, compile_options_obj.argument_layouts)
             ELSE hash_obj,
             compile_options_obj.parameter_is_tupled_arguments),
           compile_options_obj.executable_build_options),
         compile_options_obj.tuple_arguments),
         compile_options_obj.num_replicas), compile_options_obj.num_partitions),
    LAMBDA h :
      IF compile_options_obj.device_assignment # None
      THEN h \o compile_options_obj.device_assignment.bytes
      ELSE h)

_hash_platform(hash_obj, backend) ==
  _hash_string(_hash_string(_hash_string(hash_obj, backend.platform),
                            backend.platform_version), backend.runtime_type)

\* get_cache_key 70-93; bytes(jax._src.lib.version) of the version (0, 1, 72)
get_cache_key(xla_computation, compile_options, backend) ==
  _hash_platform(
    _hash_compile_options(scrubbed_hlo(xla_computation), compile_options) \o <<0, 1, 72>>,
    backend)

\* the compile options, executable build options and debug options of the
\* requests, the computations and the backend
DebugOptions ==
  [xla_cpu_enable_fast_math |-> FALSE, xla_cpu_fast_math_honor_infs |-> TRUE,
   xla_cpu_fast_math_honor_nans |-> TRUE, xla_cpu_fast_math_honor_division |-> TRUE,
   xla_cpu_fast_math_honor_functions |-> TRUE, xla_gpu_enable_fast_min_max |-> FALSE,
   xla_backend_optimization_level |-> 2, xla_cpu_enable_xprof_traceme |-> FALSE,
   xla_llvm_disable_expensive_passes |-> FALSE, xla_test_all_input_layouts |-> FALSE]

ExecutableBuildOptions(num_replicas) ==
  [result_layout |-> None, num_replicas |-> num_replicas, num_partitions |-> 1,
   debug_options |-> DebugOptions, device_assignment |-> None,
   use_spmd_partitioning |-> FALSE,
   allow_spmd_sharding_propagation_to_output |-> FALSE]

Layouts == 1..MaxLayout

\* a list of layouts, a serialized device assignment
List(elts) == [k |-> "list", elts |-> elts]
Serialized(bytes) == [k |-> "bytes", bytes |-> bytes]

ArgumentLayouts ==
  {None, List(<<>>)} \cup {List(<<a>>) : a \in Layouts}
    \cup {List(<<a, b>>) : a, b \in Layouts}

CompileOptions ==
  {[argument_layouts |-> al, parameter_is_tupled_arguments |-> 0,
    executable_build_options |-> ExecutableBuildOptions(nr),
    tuple_arguments |-> ta, num_replicas |-> nr, num_partitions |-> 1,
    device_assignment |-> da] :
     al \in ArgumentLayouts, nr \in {1, 2}, ta \in BOOLEAN, da \in {None, Serialized(<<8, 1>>)}}

XlaComputations ==
  {[body |-> <<b>>, addr |-> a] : b \in {104, 105}, a \in {<<55>>, <<55, 102>>}}

Backend == [platform |-> <<99, 112, 117>>, platform_version |-> <<49>>,
            runtime_type |-> <<115, 101>>]

InitCache ==
  /\ tracers = <<>>
  /\ frames = <<>>
  /\ status = "run"
  /\ steps = 0
  /\ last = [op |-> "init"]
  /\ ext = NoExt
  /\ pe = [pc |-> "off"]
  /\ jn = [op |-> "off"]
  /\ hcb = [pc |-> "off"]
  /\ cc = [pc |-> "on", keys |-> <<>>]

\* get_executable or put_executable computes the key of a request
GetCacheKey ==
  /\ cc.pc = "on"
  /\ Len(cc.keys) < MaxRequests
  /\ \E c \in XlaComputations : \E o \in CompileOptions :
       cc' = [cc EXCEPT !.keys = Append(@, [xla_computation |-> c, compile_options |-> o,
                                            cache_key |-> get_cache_key(c, o, Backend)])]
  /\ UNCHANGED <<tracers, frames, status, steps, last, ext, pe, jn, hcb>>

NextCache == GetCacheKey

SpecCache == InitCache /\ [][NextCache]_vars

\* two requests that differ in their argument layouts and in nothing else
DifferInLayoutsOnly(r, s) ==
  /\ r.xla_computation = s.xla_computation
  /\ r.compile_options.argument_layouts # s.compile_options.argument_layouts
  /\ [r.compile_options EXCEPT !.argument_layouts = None]
       = [s.compile_options EXCEPT !.argument_layouts = None]

\* C30: get_cache_key hashes every component of the compile options: the
\* serialized proto of every argument layout is fed to the hash, so two
\* requests that differ in nothing but argument_layouts are fed different
\* bytes and do not share a cache key.
C30_LayoutsHashed ==
  \A i, j \in DOMAIN cc.keys :
    DifferInLayoutsOnly(cc.keys[i], cc.keys[j]) =>
      cc.keys[i].cache_key # cc.keys[j].cache_key

\* two requests have the same key exactly when they differ in nothing but
\* the argument layouts and the addresses of function pointers in the HLO
C30_OtherComponentsHashed ==
  \A i, j \in DOMAIN cc.keys :
    cc.keys[i].cache_key = cc.keys[j].cache_key <=>
      /\ cc.keys[i].xla_computation.body = cc.keys[j].xla_computation.body
      /\ [cc.keys[i].compile_options EXCEPT !.argument_layouts = None]
           = [cc.keys[j].compile_options EXCEPT !.argument_layouts = None]

\* the keys of two requests with different lists of argument layouts
C30_TwoLayouts ==
  /\ Len(cc.keys) = 2
  /\ DifferInLayoutsOnly(cc.keys[1], cc.keys[2])
  /\ cc.keys[1].compile_options.argument_layouts = List(<<1>>)
  /\ cc.keys[2].compile_options.argument_layouts = List(<<2, 1>>)
====
